---- MODULE Spec2Model ----
(***************************************************************************)
(* Schedule change-detection and notification pipeline of the GSOM SPbU    *)
(* schedule bot: services/scheduler_service.py, notification_service.py,   *)
(* schedule_service.py and database/db.py.                                 *)
(*                                                                         *)
(* Text is modelled as a sequence of characters, one short string per     *)
(* character; a Python dict as a record; a table of the SQLite database   *)
(* as a function whose domain is the set of its unique keys.               *)
(***************************************************************************)
EXTENDS Integers, Sequences, FiniteSets, TLC

(***************************************************************************)
(* Bounds of the model.                                                    *)
(***************************************************************************)
\* longest event list the schedule source answers with
MaxEvents == 1
\* poll runs started in one behaviour (timer ticks and manual triggers)
MaxRuns == 2
\* last value of the wall clock, in hours
MaxClock == 1
\* menu callbacks of users (group choice, notification toggle) in one behaviour
MaxUserOps == 1
\* calls that fail in one behaviour: database errors, fetch errors, refused messages
MaxFaults == 1

\* group ids known to the schedule source
Groups == {1, 2}
\* chat users
UserIds == {101, 102}
\* the two ways check_schedule_changes is entered
Runs == {"timer", "manual"}

(***************************************************************************)
(* Text helpers: Python str operations used by the services.               *)
(***************************************************************************)
\* keyword in text
Contains(text, kw) ==
    \E i \in 1..(Len(text) - Len(kw) + 1) : SubSeq(text, i, i + Len(kw) - 1) = kw

\* str.lower(), on the characters the model uses
UpperToLower == [E |-> "e", M |-> "m", O |-> "o", A |-> "a", Z |-> "z",
                 C |-> "c", H |-> "h", IO |-> "io", T |-> "t", X |-> "x",
                 D |-> "d", N |-> "n", P |-> "p"]

LowerChar(c) == IF c \in DOMAIN UpperToLower THEN UpperToLower[c] ELSE c

Lower(text) == [i \in 1..Len(text) |-> LowerChar(text[i])]

\* sep.join(parts)
RECURSIVE Join(_, _)
Join(parts, sep) ==
    IF Len(parts) = 0 THEN <<>>
    ELSE IF Len(parts) = 1 THEN parts[1]
    ELSE parts[1] \o sep \o Join(Tail(parts), sep)

\* all orders in which a Python set can be iterated
Orders(S) ==
    {s \in [1..Cardinality(S) -> S] : \A x \in S : \E i \in DOMAIN s : s[i] = x}

(***************************************************************************)
(* ScheduleService: normalisation, identity key, session test and diff.    *)
(***************************************************************************)
\* ScheduleService.SESSION_EVENT_TYPES; the Cyrillic keywords are written
\* in Latin letters, one character per letter
SESSION_EVENT_TYPES ==
    << <<"z","a","c","h","e","t">>, <<"z","a","c","h","io","t">>,
       <<"e","k","z","a","m","e","n">>,
       <<"p","o","k","a","z"," ","r","a","b","o","t">>,
       <<"c","r","e","d","i","t">>, <<"e","x","a","m">> >>

\* is_session_event that looks at the kind only
is_session_event_KindOnly(event) ==
    \E i \in DOMAIN SESSION_EVENT_TYPES :
        Contains(Lower(event.Kind), SESSION_EVENT_TYPES[i])

is_session_event(event) ==
    LET kind == Lower(event.Kind)
        subject == Lower(event.Subject)
    IN \E i \in DOMAIN SESSION_EVENT_TYPES :
          \/ Contains(kind, SESSION_EVENT_TYPES[i])
          \/ Contains(subject, SESSION_EVENT_TYPES[i])

\* x or y, for Python lists and strings (an empty one is falsy)
OrElse(x, y) == IF x # <<>> THEN x ELSE y

\* the name loop of normalize_event: a dict gives FullName or Name and is
\* dropped when both are empty, a plain string is taken as it is
RECURSIVE EducatorNames(_)
EducatorNames(edu_data) ==
    IF edu_data = <<>> THEN <<>>
    ELSE LET edu == Head(edu_data)
             rest == EducatorNames(Tail(edu_data))
         IN IF edu.shape = "dict"
            THEN (IF OrElse(edu.FullName, edu.Name) # <<>>
                  THEN <<OrElse(edu.FullName, edu.Name)>> \o rest ELSE rest)
            ELSE IF edu.shape = "str" THEN <<edu.value>> \o rest
            ELSE rest

RECURSIVE LocationNames(_)
LocationNames(loc_data) ==
    IF loc_data = <<>> THEN <<>>
    ELSE LET loc == Head(loc_data)
             rest == LocationNames(Tail(loc_data))
         IN IF loc.shape = "dict"
            THEN (IF OrElse(loc.DisplayName, loc.Address) # <<>>
                  THEN <<OrElse(loc.DisplayName, loc.Address)>> \o rest ELSE rest)
            ELSE IF loc.shape = "str" THEN <<loc.value>> \o rest
            ELSE rest

\* the keywords of the online test, Cyrillic written in Latin letters
ONLINE_KEYWORDS ==
    << <<"d","i","s","t","a","n","c","i","o","n","n">>,
       <<"o","n","l","a","j","n">>,
       <<"o","n","l","i","n","e">>,
       <<"k","o","m","m","u","n","i","k","a","c","i","o","n","n","o">> >>

normalize_event(event) ==
    LET educators == EducatorNames(OrElse(event.EducatorIds, event.Educators))
        locations == LocationNames(OrElse(event.EventLocations, event.Locations))
        location_str == Lower(Join(locations, <<" ">>))
    IN [date |-> event.DayDate,
        time_start |-> event.Start,
        time_end |-> event.End,
        time_interval |-> event.TimeIntervalString,
        subject |-> event.Subject,
        kind |-> event.Kind,
        educators |-> educators,
        locations |-> locations,
        is_online |-> \E i \in DOMAIN ONLINE_KEYWORDS :
                          Contains(location_str, ONLINE_KEYWORDS[i])]

\* create_event_key with the start time in the key
create_event_key_WithTime(event) ==
    LET normalized == normalize_event(event)
        bar == <<"|">>
    IN normalized.date \o bar \o normalized.time_start \o bar \o normalized.subject
         \o bar \o normalized.kind
         \o bar \o Join(normalized.educators, bar)
         \o bar \o Join(normalized.locations, bar)

create_event_key(event) ==
    LET normalized == normalize_event(event)
        bar == <<"|">>
    IN normalized.date \o bar \o normalized.subject \o bar \o normalized.kind
         \o bar \o Join(normalized.educators, bar)
         \o bar \o Join(normalized.locations, bar)

\* the keys of a dict comprehension over events, in order of first insertion
RECURSIVE KeysOf(_)
KeysOf(events) ==
    IF events = <<>> THEN <<>>
    ELSE LET init == KeysOf(SubSeq(events, 1, Len(events) - 1))
             k == create_event_key(events[Len(events)])
         IN IF \E i \in DOMAIN init : init[i] = k THEN init ELSE Append(init, k)

\* for e in events: if create_event_key(e) == key: ...; break
FirstWithKey(events, key) ==
    events[CHOOSE i \in DOMAIN events :
              /\ create_event_key(events[i]) = key
              /\ \A j \in 1..(i - 1) : create_event_key(events[j]) # key]

\* {create_event_key(e): normalize_event(e) for e in events}[key]: a later
\* event with the same key replaces the earlier one
NormalizedOf(events, key) ==
    normalize_event(events[CHOOSE i \in DOMAIN events :
              /\ create_event_key(events[i]) = key
              /\ \A j \in (i + 1)..Len(events) : create_event_key(events[j]) # key])

InSeq(x, s) == \E i \in DOMAIN s : s[i] = x

\* ChangesOf that looks at the times only
ChangesOf_TimeOnly(old_data, new_data) ==
    IF old_data.time_start # new_data.time_start \/ old_data.time_end # new_data.time_end
    THEN <<"time">> ELSE <<>>

\* the changes list of one common key
ChangesOf(old_data, new_data) ==
    (IF old_data.time_start # new_data.time_start \/ old_data.time_end # new_data.time_end
       THEN <<"time">> ELSE <<>>)
    \o (IF old_data.educators # new_data.educators THEN <<"educator">> ELSE <<>>)
    \o (IF old_data.locations # new_data.locations THEN <<"location">> ELSE <<>>)
    \o (IF old_data.is_online # new_data.is_online THEN <<"format">> ELSE <<>>)

\* ChangedEntries with the old side compared by its first event of the key
RECURSIVE ChangedEntries_OldFirst(_, _, _)
ChangedEntries_OldFirst(keys, old_events, new_events) ==
    IF keys = <<>> THEN <<>>
    ELSE LET key == Head(keys)
             changes == ChangesOf(normalize_event(FirstWithKey(old_events, key)),
                                  NormalizedOf(new_events, key))
             rest == ChangedEntries_OldFirst(Tail(keys), old_events, new_events)
         IN IF changes # <<>>
            THEN <<[old |-> FirstWithKey(old_events, key),
                    new |-> FirstWithKey(new_events, key),
                    changes |-> changes]>> \o rest
            ELSE rest

RECURSIVE ChangedEntries(_, _, _)
ChangedEntries(keys, old_events, new_events) ==
    IF keys = <<>> THEN <<>>
    ELSE LET key == Head(keys)
             changes == ChangesOf(NormalizedOf(old_events, key),
                                  NormalizedOf(new_events, key))
             rest == ChangedEntries(Tail(keys), old_events, new_events)
         IN IF changes # <<>>
            THEN <<[old |-> FirstWithKey(old_events, key),
                    new |-> FirstWithKey(new_events, key),
                    changes |-> changes]>> \o rest
            ELSE rest

\* Representatives without the break: every event whose key is listed
Representatives_All(keys, events) ==
    SelectSeq(events, LAMBDA e : InSeq(create_event_key(e), keys))

RECURSIVE Representatives(_, _)
Representatives(keys, events) ==
    IF keys = <<>> THEN <<>>
    ELSE <<FirstWithKey(events, Head(keys))>> \o Representatives(Tail(keys), events)

\* compare_schedules whose removed loop has no break: the last event of the
\* key is the one listed
compare_schedules_RemovedLast(old_events, new_events) ==
    LET old_keys == KeysOf(old_events)
        new_keys == KeysOf(new_events)
        only_new == SelectSeq(new_keys, LAMBDA k : ~InSeq(k, old_keys))
        only_old == SelectSeq(old_keys, LAMBDA k : ~InSeq(k, new_keys))
        common == SelectSeq(old_keys, LAMBDA k : InSeq(k, new_keys))
        LastWithKey(key) ==
            old_events[CHOOSE i \in DOMAIN old_events :
                /\ create_event_key(old_events[i]) = key
                /\ \A j \in (i + 1)..Len(old_events) :
                      create_event_key(old_events[j]) # key]
    IN [added |-> Representatives(only_new, new_events),
        removed |-> [i \in DOMAIN only_old |-> LastWithKey(only_old[i])],
        changed |-> ChangedEntries(common, old_events, new_events)]

\* compare_schedules whose added loop runs over all the keys of new
compare_schedules_AddedAll(old_events, new_events) ==
    LET old_keys == KeysOf(old_events)
        new_keys == KeysOf(new_events)
        only_old == SelectSeq(old_keys, LAMBDA k : ~InSeq(k, new_keys))
        common == SelectSeq(old_keys, LAMBDA k : InSeq(k, new_keys))
    IN [added |-> Representatives(new_keys, new_events),
        removed |-> Representatives(only_old, old_events),
        changed |-> ChangedEntries(common, old_events, new_events)]

\* compare_schedules, with each bucket listed in the order of the keys' first
\* occurrence; Python iterates the key sets in an arbitrary order, which the
\* caller's NotificationLists accounts for
compare_schedules(old_events, new_events) ==
    LET old_keys == KeysOf(old_events)
        new_keys == KeysOf(new_events)
        only_new == SelectSeq(new_keys, LAMBDA k : ~InSeq(k, old_keys))
        only_old == SelectSeq(old_keys, LAMBDA k : ~InSeq(k, new_keys))
        common == SelectSeq(old_keys, LAMBDA k : InSeq(k, new_keys))
    IN [added |-> Representatives(only_new, new_events),
        removed |-> Representatives(only_old, old_events),
        changed |-> ChangedEntries(common, old_events, new_events)]

(***************************************************************************)
(* The events the schedule source can answer with.                         *)
(***************************************************************************)
Lesson(subject, kind, start, end) ==
    [DayDate |-> <<"0","9","-","0","1">>,
     Start |-> start, End |-> end, TimeIntervalString |-> <<>>,
     Subject |-> subject, Kind |-> kind,
     EducatorIds |-> <<[shape |-> "dict", FullName |-> <<"I","v">>, Name |-> <<>>]>>,
     Educators |-> <<>>,
     EventLocations |-> <<[shape |-> "dict", DisplayName |-> <<"r","1">>, Address |-> <<>>]>>,
     Locations |-> <<>>]

At10 == <<"1","0",":","0","0">>
At12 == <<"1","2",":","0","0">>
At14 == <<"1","4",":","0","0">>

LectureAt10 == Lesson(<<"M","a","t","h">>, <<"l","e","c","t","u","r","e">>, At10, At12)
LectureAt12 == Lesson(<<"M","a","t","h">>, <<"l","e","c","t","u","r","e">>, At12, At14)
ExamAt10 == Lesson(<<"M","a","t","h">>, <<"E","x","a","m">>, At10, At12)
ExamAt12 == Lesson(<<"M","a","t","h">>, <<"E","x","a","m">>, At12, At14)

EventPool == {LectureAt10, LectureAt12, ExamAt10, ExamAt12}

\* every answer of get_group_schedule_regular of at most MaxEvents events
Fetchable == UNION {[1..n -> EventPool] : n \in 0..MaxEvents}

(***************************************************************************)
(* Database: hashes and rows.                                              *)
(***************************************************************************)
\* _hash_schedule over the events whatever their order
hash_schedule_Unordered(schedule_data) ==
    <<"sha256", {schedule_data[i] : i \in DOMAIN schedule_data}>>

\* Database._hash_schedule: the digest of the serialised list, taken as
\* collision free; the list order is part of the serialisation
hash_schedule(schedule_data) == <<"sha256", schedule_data>>

\* Database._hash_notification: the digest of {user_id, **notification_data}
hash_notification(user_id, notification_data) ==
    <<"sha256", user_id, notification_data>>

\* users.group_id of a user who has not chosen a group (SQL NULL)
NoGroup == 0

UserRows == [group_id : Groups \cup {NoGroup}, notifications_enabled : BOOLEAN]

\* key of schedule_snapshots: UNIQUE(group_id, snapshot_type)
SnapKey(group_id) == <<group_id, "regular">>

\* get_schedule_snapshot's answer for a missing row: (None, None)
NoRow == [found |-> FALSE, hash |-> <<>>, data |-> <<>>]

(***************************************************************************)
(* NotificationService.notify_schedule_changes: the notification list.     *)
(***************************************************************************)
Reorderings(seq) ==
    {[i \in DOMAIN seq |-> seq[p[i]]] : p \in Orders(DOMAIN seq)}

AddedData(event) ==
    [type |-> "added", event_key |-> create_event_key(event), changes |-> <<>>]

RemovedData(event) ==
    [type |-> "removed", event_key |-> create_event_key(event), changes |-> <<>>]

ChangedData(change) ==
    [type |-> "changed", event_key |-> create_event_key(change.new),
     changes |-> change.changes]

MapSeq(seq, Op(_)) == [i \in DOMAIN seq |-> Op(seq[i])]

\* the three loops without the is_session_event test
NotificationLists_Unfiltered(changes) ==
    {MapSeq(a, AddedData) \o MapSeq(b, RemovedData) \o MapSeq(c, ChangedData) :
          a \in Reorderings(changes.added), b \in Reorderings(changes.removed),
          c \in Reorderings(changes.changed)}

\* the notification_data of the three loops, session events skipped; the
\* buckets come in the arbitrary order of Python's set iteration
NotificationLists(changes) ==
    LET added == SelectSeq(changes.added, LAMBDA e : ~is_session_event(e))
        removed == SelectSeq(changes.removed, LAMBDA e : ~is_session_event(e))
        changed == SelectSeq(changes.changed, LAMBDA c : ~is_session_event(c.new))
    IN {MapSeq(a, AddedData) \o MapSeq(b, RemovedData) \o MapSeq(c, ChangedData) :
          a \in Reorderings(added), b \in Reorderings(removed),
          c \in Reorderings(changed)}

NoChanges(changes) ==
    changes.added = <<>> /\ changes.removed = <<>> /\ changes.changed = <<>>

(***************************************************************************)
(* State.                                                                  *)
(***************************************************************************)
VARIABLES
    users,          \* table users: user_id -> row
    snapshots,      \* table schedule_snapshots: (group_id, type) -> row
    sent,           \* table sent_notifications: the rows (user_id, hash)
    system_state,   \* table system_state: key -> value
    clock,          \* the last time read from now(), in hours
    run,            \* per entry into check_schedule_changes: position and locals
    runsLeft,       \* poll runs that may still start
    opsLeft,        \* user menu callbacks that may still happen
    sink,           \* (user_id, hash) -> messages the sink accepted and refused
    faultsLeft,     \* calls (database, fetch, sink) that may still fail
    horizon,        \* the last time the behaviour reaches, in hours
    call,           \* one application of a ScheduleService function
    request         \* one SpbuApiClient._request call: position and locals

vars == <<users, snapshots, sent, system_state, clock, run, runsLeft,
          opsLeft, sink, faultsLeft, horizon, call, request>>

\* the locals of one _check_group_schedule call, before the call; attempts
\* and recorded list what the call sent and what it marked as sent; probed
\* tells whether the run executed the session probe fetch
IdleLocals ==
    [new_events |-> <<>>, old |-> NoRow, users |-> <<>>, notifications |-> <<>>,
     ui |-> 0, ni |-> 0, sent_count |-> 0, attempts |-> <<>>, recorded |-> <<>>,
     result |-> 0, error |-> "none"]

IdleRun ==
    [pc |-> "idle", group_ids |-> <<>>, gi |-> 0, total_notifications |-> 0,
     errors |-> <<>>, outcome |-> "none", probed |-> FALSE, locals |-> IdleLocals]

\* the user tables a behaviour starts with: user 101 is subscribed to group 1
\* and user 102 is in any state, or nobody has chosen a group yet
InitialUsers ==
    {t \in [UserIds -> UserRows] :
        \/ t[101] = [group_id |-> 1, notifications_enabled |-> TRUE]
        \/ \A u \in UserIds : t[u] = [group_id |-> NoGroup, notifications_enabled |-> TRUE]}

\* user 101 subscribed to group 1, user 102 without a group
OneSubscriber ==
    {[u \in UserIds |-> IF u = 101
                        THEN [group_id |-> 1, notifications_enabled |-> TRUE]
                        ELSE [group_id |-> NoGroup, notifications_enabled |-> TRUE]]}

\* the database holds the users who registered before the first poll and
\* nothing else; the budgets bound what the environment does in the behaviour
Tables(tables, runs, ops, failures, hours) ==
    /\ users \in tables
    /\ snapshots = <<>>
    /\ sent = {}
    /\ system_state = <<>>
    /\ clock = 0
    /\ run = [r \in Runs |-> IdleRun]
    /\ runsLeft = runs
    /\ opsLeft = ops
    /\ sink = <<>>
    /\ faultsLeft = failures
    /\ horizon = hours

\* no ScheduleService function is being applied on its own
NoCall == [pc |-> "none"]

\* no _request call is being followed step by step
NoRequest == [pc |-> "none"]

InitWith(tables, runs, ops, failures, hours) ==
    /\ Tables(tables, runs, ops, failures, hours)
    /\ call = NoCall
    /\ request = NoRequest

\* what the environment does in one behaviour: users use the menu, or calls
\* fail, or time passes between the polls of any user table; or one
\* subscriber is polled once more, with failing calls
Init ==
    \/ InitWith(InitialUsers, MaxRuns, MaxUserOps, 0, 0)
    \/ InitWith(InitialUsers, MaxRuns, 0, MaxFaults, 0)
    \/ InitWith(InitialUsers, MaxRuns, 0, 0, MaxClock)
    \/ InitWith(OneSubscriber, MaxRuns + 1, 0, MaxFaults + 1, 0)

\* INSERT ... ON CONFLICT DO UPDATE / INSERT: the table with key k set to v
Upsert(table, k, v) ==
    [x \in (DOMAIN table) \cup {k} |-> IF x = k THEN v ELSE table[x]]

\* now().strftime("%Y-%m-%d %H:%M:%S")
Timestamp(t) == [time |-> t]

\* what now() and SQLite's CURRENT_TIMESTAMP can read: a time not before the
\* last one read
Now == clock..horizon

(***************************************************************************)
(* Control flow shared by the steps of a run.                              *)
(***************************************************************************)
\* the run returns (or raises, when an exception left the top-level handler)
Finished(rec, how) ==
    [IdleRun EXCEPT !.outcome = how, !.probed = rec.probed]

\* _check_group_schedule returned: back in the loop of check_schedule_changes
Returned(rec, value) ==
    [rec EXCEPT !.pc = "group_ret", !.locals.result = value]

\* an exception leaves _check_group_schedule
Raised(rec, what) ==
    [rec EXCEPT !.pc = "group_exc", !.locals.error = what]

\* the next iteration of `for group_id in group_ids`, or the code after it
NextGroup(rec) ==
    IF rec.gi < Len(rec.group_ids)
    THEN [rec EXCEPT !.pc = "fetch", !.gi = rec.gi + 1, !.locals = IdleLocals]
    ELSE [rec EXCEPT !.pc = "set_last_check", !.locals = IdleLocals]

\* NextPair with the snapshot written only when something was sent
NextPair_SaveOnlyIfSent(rec) ==
    LET l == rec.locals
    IN IF l.ni < Len(l.notifications)
       THEN [rec EXCEPT !.pc = "is_sent", !.locals.ni = l.ni + 1]
       ELSE IF l.ui < Len(l.users)
       THEN [rec EXCEPT !.pc = "is_sent", !.locals.ui = l.ui + 1, !.locals.ni = 1]
       ELSE IF l.sent_count = 0
       THEN Returned(rec, 0)
       ELSE [rec EXCEPT !.pc = "save_snapshot", !.locals.result = l.sent_count]

\* the next (user, notification) pair of the two loops of
\* notify_schedule_changes, or its return and the snapshot write after it
NextPair(rec) ==
    LET l == rec.locals
    IN IF l.ni < Len(l.notifications)
       THEN [rec EXCEPT !.pc = "is_sent", !.locals.ni = l.ni + 1]
       ELSE IF l.ui < Len(l.users)
       THEN [rec EXCEPT !.pc = "is_sent", !.locals.ui = l.ui + 1, !.locals.ni = 1]
       ELSE [rec EXCEPT !.pc = "save_snapshot", !.locals.result = l.sent_count]

\* the end of a run that writes last_error whether or not a group failed
AfterSession_AlwaysWrite(rec) == [rec EXCEPT !.pc = "write_errors"]

\* after _maybe_check_session: `if errors:` and the end of the run
AfterSession(rec) ==
    IF rec.errors # <<>>
    THEN [rec EXCEPT !.pc = "write_errors"]
    ELSE Finished(rec, "returned")

CurrentGroup(r) == run[r].group_ids[run[r].gi]
CurrentUser(r) == run[r].locals.users[run[r].locals.ui]
CurrentData(r) == run[r].locals.notifications[run[r].locals.ni]
CurrentHash(r) == hash_notification(CurrentUser(r), CurrentData(r))

(***************************************************************************)
(* SchedulerService.check_schedule_changes, one action per await.  Every    *)
(* database call can raise (StorageError), every fetch can raise           *)
(* SpbuApiError, and the messaging sink can accept or refuse a message.    *)
(***************************************************************************)
Set(r, rec) == run' = [run EXCEPT ![r] = rec]

\* the awaited call succeeds / raises
Succeeds == UNCHANGED faultsLeft
Fails == faultsLeft > 0 /\ faultsLeft' = faultsLeft - 1

\* the timer job or trigger_manual_check enters check_schedule_changes;
\* `overlap` tells whether a run may start while the other one is active
Start(r, overlap) ==
    /\ run[r].pc = "idle"
    /\ runsLeft > 0
    /\ overlap \/ \A q \in Runs : run[q].pc = "idle"
    /\ runsLeft' = runsLeft - 1
    /\ Set(r, [IdleRun EXCEPT !.pc = "get_groups"])
    /\ UNCHANGED <<users, snapshots, sent, system_state, clock, opsLeft, sink,
                   faultsLeft, horizon, call, request>>

\* SELECT DISTINCT group_id FROM users WHERE group_id IS NOT NULL
get_all_unique_groups == {users[u].group_id : u \in UserIds} \ {NoGroup}

\* line 61: group_ids = await self.db.get_all_unique_groups()
GetAllUniqueGroups(r) ==
    /\ run[r].pc = "get_groups"
    /\ \/ /\ Succeeds
          /\ \E order \in Orders(get_all_unique_groups) :
               Set(r, IF order = <<>>
                      THEN Finished(run[r], "returned")
                      ELSE [run[r] EXCEPT !.pc = "fetch", !.group_ids = order, !.gi = 1])
       \/ /\ Fails
          /\ Set(r, [run[r] EXCEPT !.pc = "top_except"])
    /\ UNCHANGED <<users, snapshots, sent, system_state, clock, runsLeft,
                   opsLeft, sink, horizon, call, request>>

\* line 160: new_events = await self.api_client.get_group_schedule_regular(group_id)
FetchRegular(r, answers) ==
    /\ run[r].pc = "fetch"
    /\ \/ /\ Succeeds
          /\ \E new_events \in answers :
               Set(r, [run[r] EXCEPT !.pc = "get_snapshot",
                                     !.locals.new_events = new_events])
       \/ /\ Fails
          /\ Set(r, Raised(run[r], "fetch"))
    /\ UNCHANGED <<users, snapshots, sent, system_state, clock, runsLeft,
                   opsLeft, sink, horizon, call, request>>

\* get_schedule_snapshot(group_id, "regular")
get_schedule_snapshot(group_id) ==
    IF SnapKey(group_id) \in DOMAIN snapshots
    THEN [found |-> TRUE,
          hash |-> snapshots[SnapKey(group_id)].schedule_hash,
          data |-> snapshots[SnapKey(group_id)].schedule_data]
    ELSE NoRow

\* AfterSnapshotRead with a missing snapshot diffed as an empty schedule
AfterSnapshotRead_DiffOnFirst(rec, old) ==
    LET new_events == rec.locals.new_events
        got == [rec EXCEPT !.locals.old = old]
    IN IF old.found /\ old.hash = hash_schedule(new_events)
       THEN Returned(got, 0)
       ELSE IF NoChanges(compare_schedules(old.data, new_events))
       THEN [got EXCEPT !.pc = "save_snapshot", !.locals.result = 0]
       ELSE [got EXCEPT !.pc = "get_users"]

\* AfterSnapshotRead without the equal-hash return
AfterSnapshotRead_NoHashGate(rec, old) ==
    LET new_events == rec.locals.new_events
        got == [rec EXCEPT !.locals.old = old]
    IN IF ~old.found
       THEN [got EXCEPT !.pc = "save_initial"]
       ELSE IF NoChanges(compare_schedules(old.data, new_events))
       THEN [got EXCEPT !.pc = "save_snapshot", !.locals.result = 0]
       ELSE [got EXCEPT !.pc = "get_users"]

\* AfterSnapshotRead whose notify_schedule_changes reads the users before
\* it looks at the diff
AfterSnapshotRead_UsersFirst(rec, old) ==
    LET new_events == rec.locals.new_events
        got == [rec EXCEPT !.locals.old = old]
    IN IF ~old.found
       THEN [got EXCEPT !.pc = "save_initial"]
       ELSE IF old.hash = hash_schedule(new_events)
       THEN Returned(got, 0)
       ELSE [got EXCEPT !.pc = "get_users"]

\* lines 168-186, after the snapshot read: the cold-start and equal-hash tests
\* and, for a changed hash, the diff at the head of notify_schedule_changes
AfterSnapshotRead(rec, old) ==
    LET new_events == rec.locals.new_events
        got == [rec EXCEPT !.locals.old = old]
    IN IF ~old.found
       THEN [got EXCEPT !.pc = "save_initial"]
       ELSE IF old.hash = hash_schedule(new_events)
       THEN Returned(got, 0)
       ELSE IF NoChanges(compare_schedules(old.data, new_events))
       THEN [got EXCEPT !.pc = "save_snapshot", !.locals.result = 0]
       ELSE [got EXCEPT !.pc = "get_users"]

\* line 166: old_hash, old_events = await self.db.get_schedule_snapshot(...)
GetSnapshot(r) ==
    /\ run[r].pc = "get_snapshot"
    /\ \/ /\ Succeeds
          /\ Set(r, AfterSnapshotRead(run[r], get_schedule_snapshot(CurrentGroup(r))))
       \/ /\ Fails
          /\ Set(r, Raised(run[r], "storage"))
    /\ UNCHANGED <<users, snapshots, sent, system_state, clock, runsLeft,
                   opsLeft, sink, horizon, call, request>>

\* save_schedule_snapshot whose conflict branch updates the data and leaves
\* the stored hash as it was
save_schedule_snapshot_DataOnly(group_id, schedule_data, t) ==
    Upsert(snapshots, SnapKey(group_id),
           [schedule_hash |-> IF SnapKey(group_id) \in DOMAIN snapshots
                              THEN snapshots[SnapKey(group_id)].schedule_hash
                              ELSE hash_schedule(schedule_data),
            schedule_data |-> schedule_data,
            created_at |-> t])

\* save_schedule_snapshot(group_id, schedule_data, "regular")
save_schedule_snapshot(group_id, schedule_data, t) ==
    Upsert(snapshots, SnapKey(group_id),
           [schedule_hash |-> hash_schedule(schedule_data),
            schedule_data |-> schedule_data,
            created_at |-> t])

\* lines 170-172: the initial snapshot
SaveInitial(r) ==
    /\ run[r].pc = "save_initial"
    /\ \/ /\ Succeeds
          /\ \E t \in Now :
               /\ clock' = t
               /\ snapshots' = save_schedule_snapshot(CurrentGroup(r),
                                                      run[r].locals.new_events, t)
          /\ Set(r, Returned(run[r], 0))
       \/ /\ Fails
          /\ Set(r, Raised(run[r], "storage"))
          /\ UNCHANGED <<snapshots, clock>>
    /\ UNCHANGED <<users, sent, system_state, runsLeft, opsLeft, sink, horizon, call, request>>

\* get_users_by_group called with notifications_only=False
get_users_by_group_All(group_id) ==
    {u \in UserIds : users[u].group_id = group_id}

\* SELECT * FROM users WHERE group_id = ? AND notifications_enabled = 1
get_users_by_group(group_id) ==
    {u \in UserIds : users[u].group_id = group_id /\ users[u].notifications_enabled}

\* lines 93-148 of notification_service.py, after the users were read: the
\* early return for no users, the notification list and the entry of the loops
AfterUsersRead(rec, us, ns) ==
    IF us = <<>>
    THEN [rec EXCEPT !.pc = "save_snapshot", !.locals.result = 0]
    ELSE IF ns = <<>>
    THEN [rec EXCEPT !.pc = "save_snapshot", !.locals.result = 0, !.locals.users = us]
    ELSE [rec EXCEPT !.pc = "is_sent", !.locals.users = us, !.locals.notifications = ns,
                     !.locals.ui = 1, !.locals.ni = 1]

\* line 91: users = await self.db.get_users_by_group(group_id, notifications_only=True)
GetUsersByGroup(r) ==
    /\ run[r].pc = "get_users"
    /\ \/ /\ Succeeds
          /\ \E us \in Orders(get_users_by_group(CurrentGroup(r))) :
             \E ns \in NotificationLists(compare_schedules(run[r].locals.old.data,
                                                           run[r].locals.new_events)) :
               Set(r, AfterUsersRead(run[r], us, ns))
       \/ /\ Fails
          /\ Set(r, Raised(run[r], "storage"))
    /\ UNCHANGED <<users, snapshots, sent, system_state, clock, runsLeft,
                   opsLeft, sink, horizon, call, request>>

\* is_notification_sent that finds no row
is_notification_sent_Never(user_id, notification_data) == FALSE

\* is_notification_sent(user_id, notification_data)
is_notification_sent(user_id, notification_data) ==
    <<user_id, hash_notification(user_id, notification_data)>> \in sent

\* line 156: the duplicate test
IsNotificationSent(r) ==
    /\ run[r].pc = "is_sent"
    /\ \/ /\ Succeeds
          /\ Set(r, IF is_notification_sent(CurrentUser(r), CurrentData(r))
                    THEN NextPair(run[r])
                    ELSE [run[r] EXCEPT !.pc = "send"])
       \/ /\ Fails
          /\ Set(r, Raised(run[r], "storage"))
    /\ UNCHANGED <<users, snapshots, sent, system_state, clock, runsLeft,
                   opsLeft, sink, horizon, call, request>>

\* send_notification that returns True from its except branches too
send_notification_AlwaysTrue(accepted) == TRUE

\* NotificationService.send_notification: True when bot.send_message returned,
\* False for TelegramForbiddenError, TelegramBadRequest and any other exception
send_notification(accepted) == accepted

\* the attempt of line 160, recorded in the locals of the call
Attempted(rec, user_id, data, ok) ==
    [rec EXCEPT !.locals.attempts =
        Append(@, [user_id |-> user_id, data |-> data, ok |-> ok])]

\* the log of the messaging sink with one more message for key
Logged(key, accepted) ==
    LET before == IF key \in DOMAIN sink THEN sink[key]
                  ELSE [accepted |-> 0, refused |-> 0]
    IN Upsert(sink, key,
              IF accepted THEN [before EXCEPT !.accepted = @ + 1]
              ELSE [before EXCEPT !.refused = @ + 1])

\* AfterSend that counts an attempt whatever send_notification answered
AfterSend_CountAll(rec, user_id, data, ok) ==
    IF ok
    THEN [Attempted(rec, user_id, data, TRUE) EXCEPT !.pc = "mark"]
    ELSE NextPair([Attempted(rec, user_id, data, FALSE) EXCEPT !.locals.sent_count = @ + 1])

\* AfterSend that tries a refused pair again within the same call
AfterSend_Retry(rec, user_id, data, ok) ==
    IF ok
    THEN [Attempted(rec, user_id, data, TRUE) EXCEPT !.pc = "mark"]
    ELSE [Attempted(rec, user_id, data, FALSE) EXCEPT !.pc = "send"]

\* lines 160-162 after the attempt: on True the pair is marked next
AfterSend(rec, user_id, data, ok) ==
    IF ok
    THEN [Attempted(rec, user_id, data, TRUE) EXCEPT !.pc = "mark"]
    ELSE NextPair(Attempted(rec, user_id, data, FALSE))

\* line 160: the delivery attempt
SendNotification(r) ==
    /\ run[r].pc = "send"
    /\ \/ /\ Succeeds
          /\ Set(r, AfterSend(run[r], CurrentUser(r), CurrentData(r),
                              send_notification(TRUE)))
          /\ sink' = Logged(<<CurrentUser(r), CurrentHash(r)>>, TRUE)
       \/ /\ Fails
          /\ Set(r, AfterSend(run[r], CurrentUser(r), CurrentData(r),
                              send_notification(FALSE)))
          /\ sink' = Logged(<<CurrentUser(r), CurrentHash(r)>>, FALSE)
    /\ UNCHANGED <<users, snapshots, sent, system_state, clock, runsLeft, opsLeft, horizon, call, request>>

\* a mark that keeps the last record only
mark_notification_sent_Replace(user_id, notification_data) ==
    {<<user_id, hash_notification(user_id, notification_data)>>}

\* mark_notification_sent: INSERT OR IGNORE INTO sent_notifications
mark_notification_sent(user_id, notification_data) ==
    sent \cup {<<user_id, hash_notification(user_id, notification_data)>>}

\* lines 161-162: record the delivery and count it
MarkNotificationSent(r) ==
    /\ run[r].pc = "mark"
    /\ \/ /\ Succeeds
          /\ sent' = mark_notification_sent(CurrentUser(r), CurrentData(r))
          /\ Set(r, NextPair([run[r] EXCEPT !.locals.sent_count = @ + 1,
                                            !.locals.recorded =
                                               Append(@, <<CurrentUser(r), CurrentHash(r)>>)]))
       \/ /\ Fails
          /\ Set(r, Raised(run[r], "storage"))
          /\ UNCHANGED sent
    /\ UNCHANGED <<users, snapshots, system_state, clock, runsLeft, opsLeft, sink, horizon, call, request>>

\* lines 189-192: the snapshot write after notify_schedule_changes returned
SaveSnapshot(r) ==
    /\ run[r].pc = "save_snapshot"
    /\ \/ /\ Succeeds
          /\ \E t \in Now :
               /\ clock' = t
               /\ snapshots' = save_schedule_snapshot(CurrentGroup(r),
                                                      run[r].locals.new_events, t)
          /\ Set(r, Returned(run[r], run[r].locals.result))
       \/ /\ Fails
          /\ Set(r, Raised(run[r], "storage"))
          /\ UNCHANGED <<snapshots, clock>>
    /\ UNCHANGED <<users, sent, system_state, runsLeft, opsLeft, sink, horizon, call, request>>

\* lines 72-73: total_notifications += notifications
GroupReturn(r) ==
    /\ run[r].pc = "group_ret"
    /\ Set(r, NextGroup([run[r] EXCEPT !.total_notifications = @ + run[r].locals.result]))
    /\ UNCHANGED <<users, snapshots, sent, system_state, clock, runsLeft,
                   opsLeft, sink, faultsLeft, horizon, call, request>>

\* check_schedule_changes without the try inside the loop: the exception of
\* one group reaches the top-level handler
GroupExcept_Abort(r) ==
    /\ run[r].pc = "group_exc"
    /\ Set(r, [run[r] EXCEPT !.pc = "top_except", !.locals = IdleLocals])
    /\ UNCHANGED <<users, snapshots, sent, system_state, clock, runsLeft,
                   opsLeft, sink, faultsLeft, horizon, call, request>>

\* a group check that stores the fetched list before it dispatches: the
\* snapshot is new even when the dispatch raised
GroupExcept_SnapshotSaved(r) ==
    /\ run[r].pc = "group_exc"
    /\ snapshots' = save_schedule_snapshot(CurrentGroup(r), run[r].locals.new_events, clock)
    /\ Set(r, NextGroup([run[r] EXCEPT !.errors =
                 Append(@, [group_id |-> CurrentGroup(r), error |-> run[r].locals.error])]))
    /\ UNCHANGED <<users, sent, system_state, clock, runsLeft,
                   opsLeft, sink, faultsLeft, horizon, call, request>>

\* a group check whose exception is dropped: nothing is appended to errors
GroupExcept_Swallowed(r) ==
    /\ run[r].pc = "group_exc"
    /\ Set(r, NextGroup(run[r]))
    /\ UNCHANGED <<users, snapshots, sent, system_state, clock, runsLeft,
                   opsLeft, sink, faultsLeft, horizon, call, request>>

\* lines 74-76: except Exception: errors.append(...)
GroupExcept(r) ==
    /\ run[r].pc = "group_exc"
    /\ Set(r, NextGroup([run[r] EXCEPT !.errors =
                 Append(@, [group_id |-> CurrentGroup(r), error |-> run[r].locals.error])]))
    /\ UNCHANGED <<users, snapshots, sent, system_state, clock, runsLeft,
                   opsLeft, sink, faultsLeft, horizon, call, request>>

\* set_system_state(key, value)
set_system_state(key, value) == Upsert(system_state, key, value)

\* the text of last_error: the timestamp and the first three errors
ErrorReport(errors, t) ==
    [time |-> t,
     errors |-> SubSeq(errors, 1, IF Len(errors) < 3 THEN Len(errors) ELSE 3)]

\* lines 79-82: last_schedule_check, once every group has been processed
SetLastScheduleCheck(r) ==
    /\ run[r].pc = "set_last_check"
    /\ \/ /\ Succeeds
          /\ \E t \in Now :
               /\ clock' = t
               /\ system_state' = set_system_state("last_schedule_check", Timestamp(t))
          /\ Set(r, [run[r] EXCEPT !.pc = "session_read"])
       \/ /\ Fails
          /\ Set(r, [run[r] EXCEPT !.pc = "top_except"])
          /\ UNCHANGED <<system_state, clock>>
    /\ UNCHANGED <<users, snapshots, sent, runsLeft, opsLeft, sink, horizon, call, request>>

\* SESSION_CHECK_INTERVAL_HOURS of _maybe_check_session
SESSION_CHECK_INTERVAL_HOURS == 6

\* a stored value that strptime("%Y-%m-%d %H:%M:%S") rejects with ValueError
Malformed == [text |-> "?"]

\* datetime.strptime(value, "%Y-%m-%d %H:%M:%S") succeeds
Parses(value) == "time" \in DOMAIN value

\* the session check that never skips the probe
SessionThrottled_Never(t) == FALSE

\* lines 113-120: the throttle of the session check; a value that does not
\* parse lets the check run
SessionThrottled(t) ==
    /\ "last_session_check" \in DOMAIN system_state
    /\ Parses(system_state["last_session_check"])
    /\ t - system_state["last_session_check"].time < SESSION_CHECK_INTERVAL_HOURS

\* line 111: last_check_str = await self.db.get_system_state("last_session_check")
SessionRead(r) ==
    /\ run[r].pc = "session_read"
    /\ \/ /\ Succeeds
          /\ \E t \in Now :
               /\ clock' = t
               /\ Set(r, IF SessionThrottled(t)
                         THEN AfterSession(run[r])
                         ELSE [run[r] EXCEPT !.pc = "session_probe"])
       \/ /\ Fails
          /\ Set(r, [run[r] EXCEPT !.pc = "top_except"])
          /\ UNCHANGED clock
    /\ UNCHANGED <<users, snapshots, sent, system_state, runsLeft, opsLeft, sink, horizon, call, request>>

\* _check_session_data that answers True after a failed probe too
SessionProbe_TrueAnyway(r) ==
    /\ run[r].pc = "session_probe"
    /\ Succeeds \/ Fails
    /\ Set(r, [run[r] EXCEPT !.pc = "session_write", !.probed = TRUE])
    /\ UNCHANGED <<users, snapshots, sent, system_state, clock, runsLeft,
                   opsLeft, sink, horizon, call, request>>

\* _check_session_data: one probe fetch for group_ids[0]; SpbuApiError gives
\* False, any other exception (an answer of an unexpected shape, lines
\* 226-235 of spbu_api.py) goes to the top-level handler
SessionProbe(r) ==
    /\ run[r].pc = "session_probe"
    /\ \/ /\ Succeeds
          /\ Set(r, [run[r] EXCEPT !.pc = "session_write", !.probed = TRUE])
       \/ /\ Fails
          /\ \/ Set(r, AfterSession([run[r] EXCEPT !.probed = TRUE]))
             \/ Set(r, [run[r] EXCEPT !.pc = "top_except", !.probed = TRUE])
    /\ UNCHANGED <<users, snapshots, sent, system_state, clock, runsLeft,
                   opsLeft, sink, horizon, call, request>>

\* lines 126-129: last_session_check after a successful probe
SessionWrite(r) ==
    /\ run[r].pc = "session_write"
    /\ \/ /\ Succeeds
          /\ \E t \in Now :
               /\ clock' = t
               /\ system_state' = set_system_state("last_session_check", Timestamp(t))
          /\ Set(r, AfterSession(run[r]))
       \/ /\ Fails
          /\ Set(r, [run[r] EXCEPT !.pc = "top_except"])
          /\ UNCHANGED <<system_state, clock>>
    /\ UNCHANGED <<users, snapshots, sent, runsLeft, opsLeft, sink, horizon, call, request>>

\* lines 87-91: last_error from the per-group errors
WriteErrors(r) ==
    /\ run[r].pc = "write_errors"
    /\ \/ /\ Succeeds
          /\ \E t \in Now :
               /\ clock' = t
               /\ system_state' = set_system_state("last_error",
                                                   ErrorReport(run[r].errors, t))
          /\ Set(r, Finished(run[r], "returned"))
       \/ /\ Fails
          /\ Set(r, [run[r] EXCEPT !.pc = "top_except"])
          /\ UNCHANGED <<system_state, clock>>
    /\ UNCHANGED <<users, snapshots, sent, runsLeft, opsLeft, sink, horizon, call, request>>

\* lines 95-100: the top-level handler writes last_error; when that write
\* raises too, the exception leaves check_schedule_changes
TopExcept(r) ==
    /\ run[r].pc = "top_except"
    /\ \/ /\ Succeeds
          /\ \E t \in Now :
               /\ clock' = t
               /\ system_state' = set_system_state("last_error",
                      ErrorReport(<<[group_id |-> NoGroup, error |-> "storage"]>>, t))
          /\ Set(r, Finished(run[r], "returned"))
       \/ /\ Fails
          /\ Set(r, Finished(run[r], "raised"))
          /\ UNCHANGED <<system_state, clock>>
    /\ UNCHANGED <<users, snapshots, sent, runsLeft, opsLeft, sink, horizon, call, request>>

(***************************************************************************)
(* The environment: the users' menu callbacks.                             *)
(***************************************************************************)
\* handlers.py callback_toggle_notifications -> Database.toggle_notifications
ToggleNotifications(u) ==
    /\ opsLeft > 0
    /\ opsLeft' = opsLeft - 1
    /\ users' = [users EXCEPT ![u].notifications_enabled = ~@]
    /\ UNCHANGED <<snapshots, sent, system_state, clock, run, runsLeft,
                   sink, faultsLeft, horizon, call, request>>

\* handlers.py group choice -> Database.set_user_group
SetUserGroup(u, g) ==
    /\ opsLeft > 0
    /\ users[u].group_id # g
    /\ opsLeft' = opsLeft - 1
    /\ users' = [users EXCEPT ![u].group_id = g]
    /\ UNCHANGED <<snapshots, sent, system_state, clock, run, runsLeft,
                   sink, faultsLeft, horizon, call, request>>

(***************************************************************************)
(* Specifications.                                                         *)
(***************************************************************************)
Step(r, answers) ==
    \/ GetAllUniqueGroups(r)
    \/ FetchRegular(r, answers)
    \/ GetSnapshot(r)
    \/ SaveInitial(r)
    \/ GetUsersByGroup(r)
    \/ IsNotificationSent(r)
    \/ SendNotification(r)
    \/ MarkNotificationSent(r)
    \/ SaveSnapshot(r)
    \/ GroupReturn(r)
    \/ GroupExcept(r)
    \/ SetLastScheduleCheck(r)
    \/ SessionRead(r)
    \/ SessionProbe(r)
    \/ SessionWrite(r)
    \/ WriteErrors(r)
    \/ TopExcept(r)

\* poll runs that do not overlap, the users' callbacks and time
Next ==
    \/ Start("timer", FALSE)
    \/ Step("timer", Fetchable)
    \/ \E u \in UserIds : ToggleNotifications(u)
    \/ \E u \in UserIds, g \in Groups : SetUserGroup(u, g)

Spec == Init /\ [][Next]_vars

\* the answers of the schedule source when two runs overlap: one lecture,
\* at one time or at another
OverlapAnswers == {<<LectureAt10>>, <<LectureAt12>>}

InitOverlap == InitWith(OneSubscriber, MaxRuns + 1, 0, MaxFaults, 0)

\* the timer job and a manual trigger with no mutual exclusion: their steps
\* interleave at every await
NextOverlap ==
    \/ \E r \in Runs : Start(r, TRUE)
    \/ \E r \in Runs : Step(r, OverlapAnswers)

SpecOverlap == InitOverlap /\ [][NextOverlap]_vars

(***************************************************************************)
(* Properties.                                                             *)
(***************************************************************************)
Range(seq) == {seq[i] : i \in DOMAIN seq}

\* the notification_data inside a notification hash
DataOf(hash) == hash[3]

SnapshotOf(group_id) == snapshots[SnapKey(group_id)]

HasSnapshot(group_id) == SnapKey(group_id) \in DOMAIN snapshots

\* C1: a group check that found no stored snapshot attempts no delivery and
\* records nothing; when it returns, it returns 0 and the stored snapshot is
\* the fetched list, whatever that list is
C1_ColdStart ==
    \A r \in Runs :
        ~run[r].locals.old.found =>
            /\ run[r].locals.attempts = <<>>
            /\ run[r].locals.recorded = <<>>
            /\ run[r].pc = "group_ret" =>
                 /\ run[r].locals.result = 0
                 /\ HasSnapshot(CurrentGroup(r))
                 /\ SnapshotOf(CurrentGroup(r)).schedule_data = run[r].locals.new_events
                 /\ SnapshotOf(CurrentGroup(r)).schedule_hash =
                        hash_schedule(run[r].locals.new_events)

C1_Witness ==
    \E r \in Runs :
        /\ run[r].pc = "group_ret"
        /\ ~run[r].locals.old.found
        /\ run[r].locals.new_events # <<>>
        /\ \E u \in UserIds : /\ users[u].group_id = CurrentGroup(r)
                              /\ users[u].notifications_enabled

\* C2 as claimed: the sink accepts at most one message per (user, fingerprint)
C2_DeliveredAtMostOnce ==
    \A k \in DOMAIN sink : sink[k].accepted <= 1

\* C2, amended: once a (user, fingerprint) pair is recorded as sent, no step
\* of a later cycle sends it to the sink again
C2_NoAttemptOnceRecorded ==
    [][\A k \in sent : k \in DOMAIN sink /\ sink'[k] = sink[k]]_vars

\* a cycle that observed a change whose pairs are all recorded and skipped them
C2_Witness ==
    \E r \in Runs :
        /\ run[r].pc = "save_snapshot"
        /\ run[r].locals.notifications # <<>>
        /\ run[r].locals.attempts = <<>>
        /\ \A u \in Range(run[r].locals.users), d \in Range(run[r].locals.notifications) :
              /\ <<u, hash_notification(u, d)>> \in sent
              /\ sink[<<u, hash_notification(u, d)>>].accepted = 1

\* C3 as claimed, for runs in which no call failed: with a timer run and a
\* manual run interleaving, the sink accepts at most one message per pair
C3_OverlapDeliversOnce ==
    faultsLeft = MaxFaults => \A k \in DOMAIN sink : sink[k].accepted < 2

\* C4: a recorded pair is one the sink accepted; a pair the sink only ever
\* refused is not recorded, so the duplicate test lets a later call send it
C4_RecordedOnlyWhenAccepted ==
    /\ \A k \in sent : k \in DOMAIN sink /\ sink[k].accepted >= 1
    /\ \A k \in DOMAIN sink : sink[k].accepted = 0 => k \notin sent

\* a pair that was refused, sent again by a later call and then recorded
C4_Witness ==
    \E k \in sent : sink[k].refused >= 1 /\ sink[k].accepted >= 1

\* C5: when the fetched list hashes to the stored hash, the group check
\* returns 0 from the snapshot read, with no delivery attempt and with the
\* snapshot table, the sent records and the sink untouched
C5_UnchangedHash ==
    [][\A r \in Runs :
          (/\ run[r].pc = "get_snapshot"
           /\ run'[r].pc \notin {"get_snapshot", "group_exc"}
           /\ HasSnapshot(CurrentGroup(r))
           /\ SnapshotOf(CurrentGroup(r)).schedule_hash =
                  hash_schedule(run[r].locals.new_events))
          => /\ run'[r].pc = "group_ret"
             /\ run'[r].locals.result = 0
             /\ run'[r].locals.attempts = <<>>
             /\ run'[r].locals.recorded = <<>>
             /\ snapshots' = snapshots
             /\ sent' = sent
             /\ sink' = sink]_vars

\* an unchanged non-empty schedule seen again after time has passed
C5_Witness ==
    \E r \in Runs :
        /\ run[r].pc = "group_ret"
        /\ run[r].locals.old.found
        /\ run[r].locals.old.hash = hash_schedule(run[r].locals.new_events)
        /\ run[r].locals.new_events # <<>>
        /\ clock > SnapshotOf(CurrentGroup(r)).created_at

\* C6: the users loaded by notify_schedule_changes are users of the group
\* with notifications enabled at the time of the read, and every delivery
\* attempt of the call goes to one of them
C6_OnlyEnabledSubscribers ==
    /\ [](\A r \in Runs : \A i \in DOMAIN run[r].locals.attempts :
             run[r].locals.attempts[i].user_id \in Range(run[r].locals.users))
    /\ [][\A r \in Runs :
             (run[r].pc = "get_users" /\ run'[r].pc \notin {"get_users", "group_exc"})
             => \A u \in Range(run'[r].locals.users) :
                   /\ users[u].group_id = CurrentGroup(r)
                   /\ users[u].notifications_enabled]_vars

\* a change was sent to a subscriber while another user of the same group has
\* notifications disabled and got nothing
C6_Witness ==
    \E r \in Runs :
        /\ run[r].pc = "save_snapshot"
        /\ run[r].locals.attempts # <<>>
        /\ opsLeft = MaxUserOps
        /\ \E u \in UserIds :
              /\ users[u].group_id = CurrentGroup(r)
              /\ ~users[u].notifications_enabled
              /\ \A i \in DOMAIN run[r].locals.attempts :
                    run[r].locals.attempts[i].user_id # u

IsSessionKey(key) ==
    \E e \in EventPool : is_session_event(e) /\ create_event_key(e) = key

\* C7: no notification is built, sent or recorded for a session event
C7_NoSessionNotification ==
    /\ \A r \in Runs :
          /\ \A i \in DOMAIN run[r].locals.notifications :
                ~IsSessionKey(run[r].locals.notifications[i].event_key)
          /\ \A i \in DOMAIN run[r].locals.attempts :
                ~IsSessionKey(run[r].locals.attempts[i].data.event_key)
    /\ \A k \in sent \cup DOMAIN sink : ~IsSessionKey(DataOf(k[2]).event_key)

\* the diff of a group with subscribers classified an exam as changed
C7_Witness ==
    \E r \in Runs :
        /\ run[r].pc = "save_snapshot"
        /\ run[r].locals.old.found
        /\ run[r].locals.users # <<>>
        /\ \E c \in Range(compare_schedules(run[r].locals.old.data,
                                            run[r].locals.new_events).changed) :
              is_session_event(c.new)

\* C8: when a group check returns, the stored snapshot of the group is the
\* fetched list
C8_SnapshotIsFetched ==
    \A r \in Runs :
        run[r].pc = "group_ret" =>
            /\ HasSnapshot(CurrentGroup(r))
            /\ SnapshotOf(CurrentGroup(r)).schedule_data = run[r].locals.new_events
            /\ SnapshotOf(CurrentGroup(r)).schedule_hash =
                   hash_schedule(run[r].locals.new_events)

\* a changed schedule whose every delivery failed: nothing sent, snapshot replaced
C8_Witness ==
    \E r \in Runs :
        /\ run[r].pc = "group_ret"
        /\ run[r].locals.old.found
        /\ run[r].locals.old.data # run[r].locals.new_events
        /\ run[r].locals.attempts # <<>>
        /\ \A i \in DOMAIN run[r].locals.attempts : ~run[r].locals.attempts[i].ok
        /\ run[r].locals.result = 0

\* the code of check_schedule_changes after the loop over the groups
AfterLoop(r) ==
    \/ run[r].pc \in {"set_last_check", "session_read", "session_probe",
                      "session_write", "write_errors"}
    \/ run[r].pc = "top_except" /\ run[r].group_ids # <<>>

Failed(r, group_id) ==
    \E j \in DOMAIN run[r].errors : run[r].errors[j].group_id = group_id

\* C9: a run leaves the loop only after the last group, and then every
\* tracked group either has its error listed or has a stored snapshot
C9_EveryGroupProcessed ==
    \A r \in Runs :
        AfterLoop(r) =>
            /\ run[r].gi = Len(run[r].group_ids)
            /\ \A g \in Range(run[r].group_ids) : Failed(r, g) \/ HasSnapshot(g)

\* the first group failed, the second was fetched and snapshotted
C9_Witness ==
    \E r \in Runs :
        /\ run[r].pc = "set_last_check"
        /\ Len(run[r].group_ids) = 2
        /\ Failed(r, run[r].group_ids[1])
        /\ ~HasSnapshot(run[r].group_ids[1])
        /\ ~Failed(r, run[r].group_ids[2])
        /\ HasSnapshot(run[r].group_ids[2])

\* C10 as claimed: no exception leaves check_schedule_changes
C10_NoExceptionEscapes ==
    \A r \in Runs : run[r].outcome # "raised"

(***************************************************************************)
(* ScheduleService functions applied on their own.                         *)
(***************************************************************************)
\* an empty database and no poll: only the function under study acts
NobodyYet ==
    {[u \in UserIds |-> [group_id |-> NoGroup, notifications_enabled |-> TRUE]]}

Silent == Tables(NobodyYet, 0, 0, 0, 0)

\* the longest event list given to compare_schedules
MaxLen == 2

Between10And12 == <<"1","0","-","1","2">>
Between12And14 == <<"1","2","-","1","4">>

\* a lesson whose time comes as TimeIntervalString only
IntervalAt10 ==
    [LectureAt10 EXCEPT !.Start = <<>>, !.End = <<>>,
                        !.TimeIntervalString = Between10And12]
IntervalAt12 ==
    [LectureAt10 EXCEPT !.Start = <<>>, !.End = <<>>,
                        !.TimeIntervalString = Between12And14]

SeminarAt10 == Lesson(<<"M","a","t","h">>, <<"s","e","m","i","n","a","r">>, At10, At12)

DiffPool == {LectureAt10, LectureAt12, SeminarAt10, IntervalAt10, IntervalAt12}

Schedules == UNION {[1..n -> DiffPool] : n \in 0..MaxLen}

InitDiff ==
    /\ Silent
    /\ request = NoRequest
    /\ call \in {[pc |-> "schedules", old_events |-> a, new_events |-> b] :
                    a \in Schedules, b \in Schedules}

\* result = ScheduleService.compare_schedules(old_events, new_events)
CompareSchedules ==
    /\ call.pc = "schedules"
    /\ call' = [pc |-> "compared", old_events |-> call.old_events,
                new_events |-> call.new_events,
                result |-> compare_schedules(call.old_events, call.new_events)]
    /\ UNCHANGED <<users, snapshots, sent, system_state, clock, run, runsLeft,
                   opsLeft, sink, faultsLeft, horizon, request>>

NextDiff == CompareSchedules

SpecDiff == InitDiff /\ [][NextDiff]_vars

\* the raw events given to the functions of one event: every combination of
\* these subjects, kinds, times, educators and locations
Subjects == {<<"M","a","t","h">>, <<"Z","a","c","h","io","t">>, <<>>}
Kinds == {<<"l","e","c","t","u","r","e">>, <<"e","x","a","m">>, <<"E","x","a","m">>, <<>>}
Starts == {<<>>, At10, At12}
Ends == {<<>>, At12}
Intervals == {<<>>, Between10And12}
EducatorLists == {<<>>, <<[shape |-> "dict", FullName |-> <<"I","v">>, Name |-> <<>>]>>}
LocationLists ==
    {<<[shape |-> "dict", DisplayName |-> <<"r","1">>, Address |-> <<>>]>>,
     <<[shape |-> "str", value |-> <<"O","n","l","i","n","e">>]>>}

EventInputs ==
    {[DayDate |-> <<"0","9","-","0","1">>, Start |-> st, End |-> en,
      TimeIntervalString |-> iv, Subject |-> su, Kind |-> ki,
      EducatorIds |-> ed, Educators |-> <<>>,
      EventLocations |-> lo, Locations |-> <<>>] :
        st \in Starts, en \in Ends, iv \in Intervals, su \in Subjects,
        ki \in Kinds, ed \in EducatorLists, lo \in LocationLists}

InitEvent ==
    /\ Silent
    /\ request = NoRequest
    /\ call \in {[pc |-> "event", event |-> e] : e \in EventInputs}

\* result = ScheduleService.normalize_event(event)
NormalizeEvent ==
    /\ call.pc = "event"
    /\ call' = [pc |-> "normalized", event |-> call.event,
                result |-> normalize_event(call.event)]
    /\ UNCHANGED <<users, snapshots, sent, system_state, clock, run, runsLeft,
                   opsLeft, sink, faultsLeft, horizon, request>>

\* result = ScheduleService.create_event_key(event)
CreateEventKey ==
    /\ call.pc = "event"
    /\ call' = [pc |-> "keyed", event |-> call.event,
                result |-> create_event_key(call.event)]
    /\ UNCHANGED <<users, snapshots, sent, system_state, clock, run, runsLeft,
                   opsLeft, sink, faultsLeft, horizon, request>>

\* result = ScheduleService.is_session_event(event)
IsSessionEvent ==
    /\ call.pc = "event"
    /\ call' = [pc |-> "classified", event |-> call.event,
                result |-> is_session_event(call.event)]
    /\ UNCHANGED <<users, snapshots, sent, system_state, clock, run, runsLeft,
                   opsLeft, sink, faultsLeft, horizon, request>>

NextEvent ==
    \/ NormalizeEvent
    \/ CreateEventKey
    \/ IsSessionEvent

SpecEvent == InitEvent /\ [][NextEvent]_vars

\* the event with its three time fields blanked
WithoutTime(event) ==
    [event EXCEPT !.Start = <<>>, !.End = <<>>, !.TimeIntervalString = <<>>]

\* two different events that differ in their time fields only
TimeShifted(x, y) == x # y /\ WithoutTime(x) = WithoutTime(y)

NoDiff == [added |-> <<>>, removed |-> <<>>, changed |-> <<>>]

\* C11 as claimed: for old = [X] and new = [X'] with X' a time shift of X,
\* compare_schedules returns nothing added, nothing removed and the one
\* changed entry (X, X', ["time"])
C11_TimeShiftIsChanged ==
    (/\ call.pc = "compared"
     /\ Len(call.old_events) = 1
     /\ Len(call.new_events) = 1
     /\ TimeShifted(call.old_events[1], call.new_events[1]))
    => call.result = [added |-> <<>>, removed |-> <<>>,
                      changed |-> <<[old |-> call.old_events[1],
                                     new |-> call.new_events[1],
                                     changes |-> <<"time">>]>>]

\* C12: compare_schedules(A, A) has three empty buckets, for every list A,
\* lists with several events of one key included
C12_Reflexive ==
    (call.pc = "compared" /\ call.old_events = call.new_events)
    => call.result = NoDiff

\* a list compared with itself that holds two different events of one key
C12_Witness ==
    /\ call.pc = "compared"
    /\ call.old_events = call.new_events
    /\ Len(call.old_events) = 2
    /\ call.old_events[1] # call.old_events[2]
    /\ create_event_key(call.old_events[1]) = create_event_key(call.old_events[2])

\* C13: the events added by compare_schedules(A, B) are the events removed
\* by compare_schedules(B, A), and the events removed by the first are the
\* events added by the second
C13_SwapSymmetry ==
    call.pc = "compared" =>
        LET swapped == compare_schedules(call.new_events, call.old_events)
        IN /\ Range(call.result.added) = Range(swapped.removed)
           /\ Range(call.result.removed) = Range(swapped.added)

\* both buckets are non-empty and the removed key has two events in A
C13_Witness ==
    /\ call.pc = "compared"
    /\ call.result.added # <<>>
    /\ call.result.removed # <<>>
    /\ Len(call.old_events) = 2
    /\ call.old_events[1] # call.old_events[2]
    /\ create_event_key(call.old_events[1]) = create_event_key(call.old_events[2])

\* C14: an event that differs from the keyed event in Start, End and
\* TimeIntervalString only has the same key
C14_KeyIgnoresTime ==
    call.pc = "keyed" =>
        \A e \in EventInputs :
            TimeShifted(call.event, e) => create_event_key(e) = call.result

C14_Witness ==
    /\ call.pc = "keyed"
    /\ \E e \in EventInputs :
          /\ TimeShifted(call.event, e)
          /\ e.Start # call.event.Start
          /\ e.End # call.event.End
          /\ e.TimeIntervalString # call.event.TimeIntervalString

HasSessionKeyword(text) ==
    \E i \in DOMAIN SESSION_EVENT_TYPES : Contains(Lower(text), SESSION_EVENT_TYPES[i])

\* C15 as claimed: is_session_event is false for every event of kind "lecture"
C15_LectureIsNotSession ==
    (call.pc = "classified" /\ call.event.Kind = <<"l","e","c","t","u","r","e">>)
    => call.result = FALSE

\* C15, amended: is_session_event is true when the kind is "exam" in any
\* letter case or the subject contains the keyword for a pass-fail test in any
\* letter case; it is false for a lecture whose subject holds no session keyword
C15_SessionByKindOrSubject ==
    call.pc = "classified" =>
        /\ Lower(call.event.Kind) = <<"e","x","a","m">> => call.result = TRUE
        /\ Contains(Lower(call.event.Subject), <<"z","a","c","h","io","t">>)
              => call.result = TRUE
        /\ (/\ call.event.Kind = <<"l","e","c","t","u","r","e">>
            /\ ~HasSessionKeyword(call.event.Subject)) => call.result = FALSE

\* a lecture whose subject holds the keyword with a capital letter
C15_Witness ==
    /\ call.pc = "classified"
    /\ call.event.Kind = <<"l","e","c","t","u","r","e">>
    /\ call.event.Subject = <<"Z","a","c","h","io","t">>
    /\ call.result = TRUE

(***************************************************************************)
(* The session check over more than one cooldown.                          *)
(***************************************************************************)
\* one subscriber, or nobody yet, polled while SESSION_CHECK_INTERVAL_HOURS
\* and more pass; last_session_check starts absent or holds text that is not
\* a timestamp
InitSession ==
    /\ users \in OneSubscriber \cup NobodyYet
    /\ snapshots = <<>>
    /\ sent = {}
    /\ system_state \in {<<>>, [k \in {"last_session_check"} |-> Malformed]}
    /\ clock = 0
    /\ run = [r \in Runs |-> IdleRun]
    /\ runsLeft = MaxRuns
    /\ opsLeft = 0
    /\ sink = <<>>
    /\ faultsLeft = MaxFaults
    /\ horizon = SESSION_CHECK_INTERVAL_HOURS + MaxClock
    /\ call = NoCall
    /\ request = NoRequest

NextSession ==
    \/ Start("timer", FALSE)
    \/ Step("timer", OverlapAnswers)

SpecSession == InitSession /\ [][NextSession]_vars

\* the stored last_session_check, when there is one
LastSessionCheck ==
    IF "last_session_check" \in DOMAIN system_state
    THEN system_state["last_session_check"]
    ELSE [absent |-> TRUE]

\* at time t the stored last_session_check is absent, is not a timestamp, or
\* is a timestamp at least the cooldown before t
Stale(t) ==
    \/ "absent" \in DOMAIN LastSessionCheck
    \/ "time" \notin DOMAIN LastSessionCheck
    \/ t - LastSessionCheck.time >= SESSION_CHECK_INTERVAL_HOURS

SessionPcs == {"session_read", "session_probe", "session_write"}

\* C17: a step of the session check leaves the snapshots, the sent records
\* and the sink as they are; last_session_check changes only in the write
\* that follows a probe that succeeded, and a failed probe leads to no write
C17_SessionCheckOnlyWritesItsTime ==
    [][/\ \A r \in Runs :
            /\ (run[r].pc \in SessionPcs /\ run'[r] # run[r])
               => /\ snapshots' = snapshots
                  /\ sent' = sent
                  /\ sink' = sink
            /\ (run'[r].pc = "session_write" /\ run[r].pc # "session_write")
               => (run[r].pc = "session_probe" /\ faultsLeft' = faultsLeft)
            /\ (run[r].pc = "session_probe" /\ faultsLeft' < faultsLeft)
               => (run'[r].pc # "session_write" /\ system_state' = system_state)
       /\ LastSessionCheck' # LastSessionCheck
            => \E r \in Runs : run[r].pc = "session_write"]_vars

\* a run whose probe failed: it returned, nothing was written and no error
\* was reported, after the group's snapshot was stored
C17_Witness ==
    \E r \in Runs :
        /\ run[r].pc = "idle"
        /\ run[r].outcome = "returned"
        /\ run[r].probed
        /\ "absent" \in DOMAIN LastSessionCheck
        /\ "last_error" \notin DOMAIN system_state
        /\ snapshots # <<>>

\* C18 as claimed: a run that returned without reporting an error has
\* recorded last_schedule_check, whatever the number of tracked groups
C18_LastCheckRecorded ==
    \A r \in Runs :
        (/\ run[r].pc = "idle"
         /\ run[r].outcome = "returned"
         /\ "last_error" \notin DOMAIN system_state)
        => "last_schedule_check" \in DOMAIN system_state

(***************************************************************************)
(* SpbuApiClient._request: one call, attempt by attempt.                   *)
(***************************************************************************)
\* the default of the max_retries parameter; no caller passes another value
max_retries == 3

\* what one `session.get(url)` with `response.json()` can come to: a status,
\* or an exception raised by get or by json()
Response(status, raises, body) == [status |-> status, raises |-> raises, body |-> body]

Responses ==
    {Response(200, "none", b) : b \in {"days", "list"}}
    \cup {Response(200, x, "") : x \in {"ContentTypeError", "JSONDecodeError"}}
    \cup {Response(st, "none", "") : st \in {204, 404, 429, 500, 503}}
    \cup {Response(0, x, "") : x \in {"ClientError", "TimeoutError"}}

\* the exceptions that are subclasses of aiohttp.ClientError
ClientErrors == {"ClientError", "ContentTypeError"}

SpbuApiError(message) == [type |-> "SpbuApiError", message |-> message]

NoError == [type |-> "None", message |-> <<>>]

\* the locals of _request at line 74, with what the call has seen and slept
FirstAttempt ==
    [pc |-> "get", attempt |-> 0, last_error |-> NoError, seen |-> <<>>,
     slept |-> <<>>, result |-> "", error |-> NoError]

RequestReturns(req, body) == [req EXCEPT !.pc = "returned", !.result = body]

RequestRaises(req, error) == [req EXCEPT !.pc = "raised", !.error = error]

\* lines 84-86 and 95-97: sleep and continue when an attempt is left;
\* otherwise `otherwise` happens
RetryOr(req, last_error, otherwise) ==
    IF req.attempt < max_retries - 1
    THEN [req EXCEPT !.pc = "sleep", !.last_error = last_error]
    ELSE otherwise

\* the handling of 4xx answers done as for 5xx answers
AfterResponse_Retry4xx(req, resp) ==
    LET got == [req EXCEPT !.seen = Append(req.seen, resp)]
    IN IF resp.raises \in ClientErrors
       THEN RetryOr(got, SpbuApiError(<<"HTTP error", resp.raises>>),
                    RequestRaises(got, SpbuApiError(<<"HTTP error", resp.raises>>)))
       ELSE IF resp.raises # "none"
       THEN RequestRaises(got, SpbuApiError(<<"Unexpected error", resp.raises>>))
       ELSE IF resp.status = 200
       THEN RequestReturns(got, resp.body)
       ELSE IF resp.status >= 400
       THEN RetryOr(got, SpbuApiError(<<"status", resp.status>>),
                    RequestRaises(got, SpbuApiError(<<"status", resp.status>>)))
       ELSE RequestRaises(got, SpbuApiError(<<"status", resp.status>>))

\* _request that sleeps after its last attempt too and then gives up
AfterResponse_SleepThenTry(req, resp) ==
    LET got == [req EXCEPT !.seen = Append(req.seen, resp)]
        again(e) == [got EXCEPT !.pc = "sleep", !.last_error = e]
    IN IF resp.raises \in ClientErrors
       THEN again(SpbuApiError(<<"HTTP error", resp.raises>>))
       ELSE IF resp.raises # "none"
       THEN RequestRaises(got, SpbuApiError(<<"Unexpected error", resp.raises>>))
       ELSE IF resp.status = 200
       THEN RequestReturns(got, resp.body)
       ELSE IF resp.status >= 500
       THEN again(SpbuApiError(<<"status", resp.status>>))
       ELSE RequestRaises(got, SpbuApiError(<<"status", resp.status>>))

\* lines 75-102: one pass through the try statement of the loop
AfterResponse(req, resp) ==
    LET got == [req EXCEPT !.seen = Append(req.seen, resp)]
    IN IF resp.raises \in ClientErrors
       THEN \* except aiohttp.ClientError; after the last attempt the loop ends
            \* and line 106 raises last_error
            RetryOr(got, SpbuApiError(<<"HTTP error", resp.raises>>),
                    RequestRaises(got, SpbuApiError(<<"HTTP error", resp.raises>>)))
       ELSE IF resp.raises # "none"
       THEN \* except Exception
            RequestRaises(got, SpbuApiError(<<"Unexpected error", resp.raises>>))
       ELSE IF resp.status = 200
       THEN RequestReturns(got, resp.body)
       ELSE IF resp.status >= 500
       THEN \* after the last attempt line 90 raises
            RetryOr(got, SpbuApiError(<<"status", resp.status>>),
                    RequestRaises(got, SpbuApiError(<<"status", resp.status>>)))
       ELSE RequestRaises(got, SpbuApiError(<<"status", resp.status>>))

InitRequest ==
    /\ Silent
    /\ call = NoCall
    /\ request = FirstAttempt

\* async with self.session.get(url) as response: ...
Get(resp) ==
    /\ request.pc = "get"
    /\ request.attempt < max_retries
    /\ request' = AfterResponse(request, resp)
    /\ UNCHANGED <<users, snapshots, sent, system_state, clock, run, runsLeft,
                   opsLeft, sink, faultsLeft, horizon, call>>

\* await asyncio.sleep(2 ** attempt); continue
Sleep ==
    /\ request.pc = "sleep"
    /\ request' = [request EXCEPT !.pc = IF request.attempt + 1 < max_retries
                                         THEN "get" ELSE "raised",
                                  !.error = IF request.attempt + 1 < max_retries
                                            THEN NoError ELSE request.last_error,
                                  !.slept = Append(request.slept, 2 ^ request.attempt),
                                  !.attempt = request.attempt + 1]
    /\ UNCHANGED <<users, snapshots, sent, system_state, clock, run, runsLeft,
                   opsLeft, sink, faultsLeft, horizon, call>>

NextRequest ==
    \/ \E resp \in Responses : Get(resp)
    \/ Sleep

\* the upstream answers every request and a sleep ends
SpecRequest == InitRequest /\ [][NextRequest]_vars /\ WF_vars(NextRequest)

Is4xx(resp) == resp.raises = "none" /\ resp.status \in 400..499

\* a failure _request answers with another attempt: a 5xx status or an
\* aiohttp.ClientError
Retryable(resp) ==
    \/ resp.raises \in ClientErrors
    \/ resp.raises = "none" /\ resp.status >= 500

\* a 200 answer whose body json() parses
Usable(resp) == resp.raises = "none" /\ resp.status = 200

Done == request.pc \in {"returned", "raised"}

\* C19: a 4xx answer ends the call at that attempt with SpbuApiError and no
\* sleep after it; when it is the first answer the call made exactly one
\* attempt and never slept
C19_ClientErrorFailsFast ==
    \A i \in DOMAIN request.seen :
        Is4xx(request.seen[i]) =>
            /\ i = Len(request.seen)
            /\ request.pc = "raised"
            /\ request.error = SpbuApiError(<<"status", request.seen[i].status>>)
            /\ Len(request.slept) = i - 1

C19_Witness ==
    /\ request.pc = "raised"
    /\ Len(request.seen) = 1
    /\ request.seen[1].status = 404
    /\ request.slept = <<>>

Delivered(l) == {i \in DOMAIN l.attempts : l.attempts[i].ok}

\* the call of notify_schedule_changes made by run r is inside its loops or
\* has returned to _check_group_schedule
InLoops(r) == run[r].pc \in {"is_sent", "send", "save_snapshot"}

ReorderAnswers ==
    {<<LectureAt10, SeminarAt10>>, <<SeminarAt10, LectureAt10>>,
     <<LectureAt12, SeminarAt10>>, <<IntervalAt10>>, <<IntervalAt12>>}

InitReorder == InitWith(OneSubscriber, MaxRuns + 1, 0, MaxFaults, 0)

NextReorder ==
    \/ Start("timer", FALSE)
    \/ Step("timer", ReorderAnswers)

SpecReorder == InitReorder /\ [][NextReorder]_vars

\* the step in which run r leaves the snapshot read of a stored snapshot
\* whose hash is not the hash of the fetched list: notify_schedule_changes
\* is called with the stored and the fetched events
NotifyCalled(r) ==
    /\ run[r].pc = "get_snapshot"
    /\ run'[r].pc \notin {"get_snapshot", "group_exc"}
    /\ HasSnapshot(CurrentGroup(r))
    /\ SnapshotOf(CurrentGroup(r)).schedule_hash # hash_schedule(run[r].locals.new_events)

\* C22: a call of notify_schedule_changes whose diff has three empty buckets
\* returns 0 at once: the users are not read, the sent records are neither
\* read nor written, and nothing is sent
C22_EmptyDiffNoStoreAccess ==
    [][\A r \in Runs :
          (/\ NotifyCalled(r)
           /\ NoChanges(compare_schedules(SnapshotOf(CurrentGroup(r)).schedule_data,
                                          run[r].locals.new_events)))
          => /\ run'[r].pc = "save_snapshot"
             /\ run'[r].locals.result = 0
             /\ run'[r].locals.users = <<>>
             /\ run'[r].locals.notifications = <<>>
             /\ run'[r].locals.attempts = <<>>
             /\ run'[r].locals.recorded = <<>>
             /\ users' = users
             /\ sent' = sent
             /\ sink' = sink]_vars

\* the call returned 0 for a lesson whose time-range text changed, with a
\* subscriber of the group who has notifications enabled
C22_Witness ==
    \E r \in Runs :
        /\ run[r].pc = "save_snapshot"
        /\ run[r].locals.old.found
        /\ run[r].locals.old.data = <<IntervalAt10>>
        /\ run[r].locals.new_events = <<IntervalAt12>>
        /\ run[r].locals.result = 0
        /\ run[r].locals.users = <<>>
        /\ get_users_by_group(CurrentGroup(r)) # {}

\* the fetched list holds the events of the stored one, each key once, in
\* another order
Reordered(old_events, new_events) ==
    /\ old_events # new_events
    /\ Len(old_events) = Len(new_events)
    /\ \E p \in Orders(DOMAIN old_events) :
          new_events = [i \in DOMAIN old_events |-> old_events[p[i]]]
    /\ \A i, j \in DOMAIN old_events :
          create_event_key(old_events[i]) = create_event_key(old_events[j]) => i = j

\* C30: for a fetched list that is the stored one in another order the hash
\* differs, so the check does not return at the hash test; the diff is empty;
\* the check goes to the snapshot write with 0 and no delivery attempt; and
\* the write stores the fetched order
C30_ReorderOnly ==
    [][\A r \in Runs :
          /\ (/\ run[r].pc = "get_snapshot"
              /\ run'[r].pc \notin {"get_snapshot", "group_exc"}
              /\ HasSnapshot(CurrentGroup(r))
              /\ Reordered(SnapshotOf(CurrentGroup(r)).schedule_data,
                           run[r].locals.new_events))
             => /\ SnapshotOf(CurrentGroup(r)).schedule_hash
                      # hash_schedule(run[r].locals.new_events)
                /\ NoChanges(compare_schedules(SnapshotOf(CurrentGroup(r)).schedule_data,
                                               run[r].locals.new_events))
                /\ run'[r].pc = "save_snapshot"
                /\ run'[r].locals.result = 0
                /\ run'[r].locals.attempts = <<>>
                /\ sink' = sink
                /\ snapshots' = snapshots
          /\ (/\ run[r].pc = "save_snapshot"
              /\ run'[r].pc = "group_ret"
              /\ Reordered(run[r].locals.old.data, run[r].locals.new_events))
             => /\ SnapshotOf(CurrentGroup(r))'.schedule_data = run[r].locals.new_events
                /\ SnapshotOf(CurrentGroup(r))'.schedule_hash
                      = hash_schedule(run[r].locals.new_events)
                /\ run'[r].locals.result = 0
                /\ run'[r].locals.attempts = <<>>
                /\ sink' = sink]_vars

\* the group check returned after a reordered answer: the snapshot holds the
\* new order and the sink saw nothing
C30_Witness ==
    \E r \in Runs :
        /\ run[r].pc = "group_ret"
        /\ run[r].locals.old.found
        /\ run[r].locals.old.data = <<LectureAt10, SeminarAt10>>
        /\ run[r].locals.new_events = <<SeminarAt10, LectureAt10>>
        /\ SnapshotOf(CurrentGroup(r)).schedule_data = <<SeminarAt10, LectureAt10>>
        /\ run[r].locals.result = 0
        /\ sink = <<>>
        /\ get_users_by_group(CurrentGroup(r)) # {}

(***************************************************************************)
(* compare_schedules on lessons that share a key and differ in what the    *)
(* key is built from: the key joins the names with "|", so a name that     *)
(* holds "|" or is empty gives the key of another list of names.           *)
(***************************************************************************)
Str(value) == [shape |-> "str", value |-> value]

\* LectureAt10 with the given starts and lists of plain strings
Named(start, end, educators, locations) ==
    [LectureAt10 EXCEPT !.Start = start, !.End = end,
                        !.EducatorIds = educators, !.EventLocations = locations]

Room == <<Str(<<"r","1">>)>>

\* one educator "a|b", and the educators "a" and "b"
OneOfTwo == Named(At10, At12, <<Str(<<"a","|","b">>)>>, Room)
TwoOfTwo == Named(At10, At12, <<Str(<<"a">>), Str(<<"b">>)>>, Room)
TwoOfTwoAt12 == Named(At12, At14, <<Str(<<"a">>), Str(<<"b">>)>>, Room)

\* one location "r|x", and the locations "r" and "x"
OneRoom == Named(At10, At12, <<Str(<<"I","v">>)>>, <<Str(<<"r","|","x">>)>>)
TwoRooms == Named(At10, At12, <<Str(<<"I","v">>)>>, <<Str(<<"r">>), Str(<<"x">>)>>)

\* "online" as the second educator and no location, and "online" as the
\* first location after one empty educator name
OnlineEducator ==
    Named(At10, At12, <<Str(<<>>), Str(<<"o","n","l","i","n","e">>)>>, <<>>)
OnlineRoom ==
    Named(At10, At12, <<Str(<<>>)>>, <<Str(<<"o","n","l","i","n","e">>), Str(<<>>)>>)

TagPool == {LectureAt10, LectureAt12, OneOfTwo, TwoOfTwo, TwoOfTwoAt12,
            OneRoom, TwoRooms, OnlineEducator, OnlineRoom}

TagSchedules == UNION {[1..n -> TagPool] : n \in 0..MaxLen}

InitTags ==
    /\ Silent
    /\ request = NoRequest
    /\ call \in {[pc |-> "schedules", old_events |-> a, new_events |-> b] :
                    a \in TagSchedules, b \in TagSchedules}

NextTags == CompareSchedules

SpecTags == InitTags /\ [][NextTags]_vars

KeySet(events) == {create_event_key(events[i]) : i \in DOMAIN events}

\* the normalized event the dict comprehension holds for a key: the one of
\* the last event with that key
Held(events, key) ==
    normalize_event(events[CHOOSE i \in DOMAIN events :
        /\ create_event_key(events[i]) = key
        /\ \A j \in DOMAIN events : create_event_key(events[j]) = key => j <= i])

\* the tags of the fields in which two normalized events differ
Differing(a, b) ==
    {tag \in {"time", "educator", "location", "format"} :
        \/ tag = "time" /\ <<a.time_start, a.time_end>> # <<b.time_start, b.time_end>>
        \/ tag = "educator" /\ a.educators # b.educators
        \/ tag = "location" /\ a.locations # b.locations
        \/ tag = "format" /\ a.is_online # b.is_online}

\* the entries of the changed bucket whose events have the key
ChangedWithKey(result, key) ==
    {i \in DOMAIN result.changed : create_event_key(result.changed[i].new) = key}

InBucket(bucket, key) == \E i \in DOMAIN bucket : create_event_key(bucket[i]) = key

\* C23: for every key of both collections there is a changed entry iff the
\* two normalized events of the key differ in the time pair, the educators,
\* the locations or the online flag; its changes are the tags of exactly the
\* fields that differ; and a key without a difference is in no bucket
C23_ChangedIffFieldsDiffer ==
    call.pc = "compared" =>
        \A key \in KeySet(call.old_events) \cap KeySet(call.new_events) :
            LET differ == Differing(Held(call.old_events, key),
                                    Held(call.new_events, key))
                entries == ChangedWithKey(call.result, key)
            IN /\ (entries # {}) <=> (differ # {})
               /\ \A i \in entries :
                     /\ Range(call.result.changed[i].changes) = differ
                     /\ Len(call.result.changed[i].changes) = Cardinality(differ)
               /\ differ = {} =>
                     /\ ~InBucket(call.result.added, key)
                     /\ ~InBucket(call.result.removed, key)

\* one key whose lessons differ in time and educators, next to a key whose
\* lessons differ in educators, locations and the online flag
C23_Witness ==
    /\ call.pc = "compared"
    /\ call.old_events = <<OneOfTwo, OnlineEducator>>
    /\ call.new_events = <<TwoOfTwoAt12, OnlineRoom>>
    /\ \E i, j \in DOMAIN call.result.changed :
          /\ call.result.changed[i].changes = <<"time", "educator">>
          /\ call.result.changed[j].changes = <<"educator", "location", "format">>

\* the first event of the collection that has the key
FirstOf(events, key) ==
    events[CHOOSE i \in DOMAIN events :
        /\ create_event_key(events[i]) = key
        /\ \A j \in DOMAIN events : create_event_key(events[j]) = key => i <= j]

\* the bucket holds one event for each of the keys and nothing else, and the
\* event of a key is the first one of the collection with that key
OnePerKey(bucket, keys, events) ==
    /\ Len(bucket) = Cardinality(keys)
    /\ \A key \in keys : \E i \in DOMAIN bucket : bucket[i] = FirstOf(events, key)

\* C25: added holds exactly one raw event per key that only new has, removed
\* exactly one per key that only old has, and the event is the first one of
\* its collection with that key
C25_FirstOccurrencePerKey ==
    call.pc = "compared" =>
        /\ OnePerKey(call.result.added,
                     KeySet(call.new_events) \ KeySet(call.old_events), call.new_events)
        /\ OnePerKey(call.result.removed,
                     KeySet(call.old_events) \ KeySet(call.new_events), call.old_events)

\* two lessons with one key on each side, the earlier one listed
C25_Witness ==
    /\ call.pc = "compared"
    /\ call.old_events = <<TwoOfTwoAt12, OneOfTwo>>
    /\ call.new_events = <<LectureAt12, LectureAt10>>
    /\ call.result.added = <<LectureAt12>>
    /\ call.result.removed = <<TwoOfTwoAt12>>

\* C26 as claimed: the changes of every changed entry are the tags of the
\* fields in which the normalized forms of its old and its new event differ
C26_EntrySelfConsistent ==
    call.pc = "compared" =>
        \A i \in DOMAIN call.result.changed :
            Range(call.result.changed[i].changes)
                = Differing(normalize_event(call.result.changed[i].old),
                            normalize_event(call.result.changed[i].new))

BucketKeys(bucket) == {create_event_key(bucket[i]) : i \in DOMAIN bucket}

ChangedKeys(changed) == {create_event_key(changed[i].new) : i \in DOMAIN changed}

\* C27: no key is in two buckets or twice in one; the keys of added are those
\* only new has, the keys of removed those only old has, and the keys of
\* changed are keys of both
C27_BucketsPartitionKeys ==
    call.pc = "compared" =>
        LET res == call.result
            old_keys == KeySet(call.old_events)
            new_keys == KeySet(call.new_events)
        IN /\ BucketKeys(res.added) = new_keys \ old_keys
           /\ BucketKeys(res.removed) = old_keys \ new_keys
           /\ ChangedKeys(res.changed) \subseteq old_keys \cap new_keys
           /\ \A i \in DOMAIN res.changed :
                 create_event_key(res.changed[i].old) = create_event_key(res.changed[i].new)
           /\ Cardinality(BucketKeys(res.added)) = Len(res.added)
           /\ Cardinality(BucketKeys(res.removed)) = Len(res.removed)
           /\ Cardinality(ChangedKeys(res.changed)) = Len(res.changed)
           /\ BucketKeys(res.added) \cap BucketKeys(res.removed) = {}
           /\ BucketKeys(res.added) \cap ChangedKeys(res.changed) = {}
           /\ BucketKeys(res.removed) \cap ChangedKeys(res.changed) = {}

\* three keys, one in each bucket
C27_Witness ==
    /\ call.pc = "compared"
    /\ Len(call.result.added) = 1
    /\ Len(call.result.removed) = 1
    /\ Len(call.result.changed) = 1
    /\ Cardinality(KeySet(call.old_events) \cup KeySet(call.new_events)) = 3

(***************************************************************************)
(* create_event_key applied to two events of one group.                    *)
(***************************************************************************)
\* the subject "a|b" with the kind "c", and the subject "a" with the kind "b|c"
LongSubject ==
    [LectureAt10 EXCEPT !.Subject = <<"a","|","b">>, !.Kind = <<"c">>]
LongKind ==
    [LectureAt10 EXCEPT !.Subject = <<"a">>, !.Kind = <<"b","|","c">>]

KeyPool == TagPool \cup {SeminarAt10, LongSubject, LongKind}

InitKeys ==
    /\ Silent
    /\ request = NoRequest
    /\ call \in {[pc |-> "pair", first |-> a, second |-> b] : a \in KeyPool, b \in KeyPool}

\* result = (create_event_key(first), create_event_key(second))
CreateEventKeys ==
    /\ call.pc = "pair"
    /\ call' = [pc |-> "keyed_pair", first |-> call.first, second |-> call.second,
                result |-> <<create_event_key(call.first), create_event_key(call.second)>>]
    /\ UNCHANGED <<users, snapshots, sent, system_state, clock, run, runsLeft,
                   opsLeft, sink, faultsLeft, horizon, request>>

NextKeys == CreateEventKeys

SpecKeys == InitKeys /\ [][NextKeys]_vars

\* the five components the key is built from
KeyComponents(event) ==
    LET normalized == normalize_event(event)
    IN <<normalized.date, normalized.subject, normalized.kind,
         normalized.educators, normalized.locations>>

\* C24 as claimed: two events have the same key iff their date, subject,
\* kind, educators and locations are equal
C24_KeyInjective ==
    call.pc = "keyed_pair" =>
        (call.result[1] = call.result[2]
            <=> KeyComponents(call.first) = KeyComponents(call.second))

(***************************************************************************)
(* normalize_event on name lists of both shapes.                           *)
(***************************************************************************)
\* an educator as the API gives it: a record with FullName, with Name only,
\* with no name at all, a plain string, an empty string, or null
EducatorItems ==
    {[shape |-> "dict", FullName |-> <<"I","v">>, Name |-> <<>>],
     [shape |-> "dict", FullName |-> <<>>, Name |-> <<"P","e">>],
     [shape |-> "dict", FullName |-> <<>>, Name |-> <<>>],
     Str(<<"S","i">>), Str(<<>>), [shape |-> "none"]}

\* location lists: a room, an address only, no name, plain strings, the
\* online keyword and the abbreviation in capitals
NameLocations ==
    {<<>>,
     <<[shape |-> "dict", DisplayName |-> <<"r","1">>, Address |-> <<>>]>>,
     <<[shape |-> "dict", DisplayName |-> <<>>, Address |-> <<"x">>],
       [shape |-> "dict", DisplayName |-> <<>>, Address |-> <<>>]>>,
     <<Str(<<>>), Str(<<"r","2">>)>>,
     <<Str(<<"O","N","L","I","N","E">>)>>,
     <<Str(<<"D","O","T">>)>>}

\* the OnlineNote of the event: missing, or a remark that names the format
OnlineNotes == {<<>>, <<"O","n","l","i","n","e">>}

NameInputs ==
    {[DayDate |-> <<"0","9","-","0","1">>, Start |-> At10, End |-> At12,
      TimeIntervalString |-> <<>>, Subject |-> <<"M","a","t","h">>,
      Kind |-> <<"l","e","c","t","u","r","e">>,
      EducatorIds |-> ed, Educators |-> <<>>,
      EventLocations |-> lo, Locations |-> <<>>, OnlineNote |-> note] :
        ed \in UNION {[1..n -> EducatorItems] : n \in 0..MaxLen},
        lo \in NameLocations, note \in OnlineNotes}

InitNames ==
    /\ Silent
    /\ request = NoRequest
    /\ call \in {[pc |-> "event", event |-> e] : e \in NameInputs}

NextNames == NormalizeEvent

SpecNames == InitNames /\ [][NextNames]_vars

\* the name an item carries, empty when it carries none
NameOf(item, first, second) ==
    IF item.shape = "dict" THEN OrElse(item[first], item[second])
    ELSE IF item.shape = "str" THEN item.value
    ELSE <<>>

\* the non-empty names of the items, in their order
NamesKept(items, first, second) ==
    SelectSeq([i \in DOMAIN items |-> NameOf(items[i], first, second)],
              LAMBDA name : name # <<>>)

\* C28 as claimed: the normalized educators and locations are the non-empty
\* names of the input, in its order, for records and for plain strings
C28_EmptyNamesDropped ==
    call.pc = "normalized" =>
        /\ call.result.educators
              = NamesKept(OrElse(call.event.EducatorIds, call.event.Educators),
                          "FullName", "Name")
        /\ call.result.locations
              = NamesKept(OrElse(call.event.EventLocations, call.event.Locations),
                          "DisplayName", "Address")
        /\ \A i \in DOMAIN call.result.educators : call.result.educators[i] # <<>>
        /\ \A i \in DOMAIN call.result.locations : call.result.locations[i] # <<>>

\* the keywords of the online format: those of normalize_event and the
\* abbreviation
FORMAT_KEYWORDS ==
    {ONLINE_KEYWORDS[i] : i \in DOMAIN ONLINE_KEYWORDS} \cup {<<"d","o","t">>}

\* C29 as claimed: the online flag is true iff a keyword occurs, in any
\* case, in the location text or in the online note of the event
C29_OnlineFromLocationOrNote ==
    call.pc = "normalized" =>
        (call.result.is_online = TRUE
            <=> \E kw \in FORMAT_KEYWORDS :
                   \/ Contains(Lower(Join(call.result.locations, <<" ">>)), kw)
                   \/ Contains(Lower(call.event.OnlineNote), kw))

(***************************************************************************)
(* The stored snapshots while a timer run and a manual run interleave.     *)
(***************************************************************************)
\* C31: every stored snapshot carries the hash of its own events, and a step
\* that writes a snapshot stores, whole, the list the writing run fetched
\* for that group
C31_SnapshotIsOneFetch ==
    [][/\ \A k \in DOMAIN snapshots' :
             snapshots'[k].schedule_hash = hash_schedule(snapshots'[k].schedule_data)
       /\ \A k \in DOMAIN snapshots' :
             (k \notin DOMAIN snapshots \/ snapshots'[k] # snapshots[k])
             => \E r \in Runs :
                   /\ run[r].pc \in {"save_initial", "save_snapshot"}
                   /\ k = SnapKey(CurrentGroup(r))
                   /\ snapshots'[k].schedule_data = run[r].locals.new_events]_vars

\* both runs found no snapshot and fetched different lists: one has stored
\* its list, the other is about to store its own over it
C31_Witness ==
    \E r, q \in Runs :
        /\ run[r].pc = "group_ret"
        /\ run[q].pc = "save_initial"
        /\ ~run[q].locals.old.found
        /\ run[q].locals.new_events # run[r].locals.new_events
        /\ SnapshotOf(CurrentGroup(q)).schedule_data = run[r].locals.new_events
        /\ SnapshotOf(CurrentGroup(q)).schedule_hash = hash_schedule(run[r].locals.new_events)

(***************************************************************************)
(* One subscriber polled over several cycles in which the same lesson      *)
(* changes more than once, with calls that fail.                           *)
(***************************************************************************)
At16 == <<"1","6",":","0","0">>

LectureAt14 == Lesson(<<"M","a","t","h">>, <<"l","e","c","t","u","r","e">>, At14, At16)

RepeatAnswers ==
    {<<>>, <<LectureAt10>>, <<LectureAt12>>, <<LectureAt14>>,
     <<LectureAt10, SeminarAt10>>}

InitRepeat == InitWith(OneSubscriber, MaxRuns + 2, 0, MaxFaults + 1, 0)

NextRepeat ==
    \/ Start("timer", FALSE)
    \/ Step("timer", RepeatAnswers)

SpecRepeat == InitRepeat /\ [][NextRepeat]_vars

\* the call made an attempt for the pair
AttemptedPair(l, user_id, data) ==
    \E i \in DOMAIN l.attempts :
        l.attempts[i].user_id = user_id /\ l.attempts[i].data = data

\* C32 as claimed, for behaviours in which no call fails: when
\* notify_schedule_changes returns, every pair of a subscriber and a
\* notification of the observed change got a delivery attempt
C32_EveryChangeAttempted ==
    faultsLeft = MaxFaults + 1 =>
        \A r \in Runs :
            (run[r].pc = "save_snapshot" /\ run[r].locals.notifications # <<>>)
            => \A i \in DOMAIN run[r].locals.users,
                  j \in DOMAIN run[r].locals.notifications :
                    AttemptedPair(run[r].locals, run[r].locals.users[i],
                                  run[r].locals.notifications[j])

\* the positions of a run inside notify_schedule_changes
DispatchPcs == {"get_users", "is_sent", "send", "mark"}

\* C33: a snapshot is written only by the step that follows the return of
\* notify_schedule_changes (or by the initial save); when the dispatch raises
\* the stored snapshot is still the one the check read; and every delivery
\* attempt is for a pair that is not recorded as sent
C33_SnapshotAfterDispatch ==
    [][/\ snapshots' # snapshots
            => \E r \in Runs : /\ run[r].pc \in {"save_initial", "save_snapshot"}
                                /\ run'[r].pc = "group_ret"
       /\ \A r \in Runs :
          /\ (run[r].pc \in DispatchPcs /\ run'[r].pc = "group_exc")
                => /\ snapshots' = snapshots
                   /\ get_schedule_snapshot(CurrentGroup(r)) = run[r].locals.old
          /\ (run[r].pc = "group_exc" /\ run[r].locals.old.found)
                => /\ snapshots' = snapshots
                   /\ get_schedule_snapshot(CurrentGroup(r)) = run[r].locals.old
          /\ (run[r].pc = "send" /\ sink' # sink)
                => <<CurrentUser(r), CurrentHash(r)>> \notin sent]_vars

\* the cycle after a dispatch that raised between its two notifications: it
\* read the same old snapshot, skipped the recorded pair and sent the other
C33_Witness ==
    \E r \in Runs :
        /\ run[r].pc = "save_snapshot"
        /\ run[r].locals.old.data = <<LectureAt10, SeminarAt10>>
        /\ Len(run[r].locals.notifications) = 2
        /\ Len(run[r].locals.attempts) = 1
        /\ Len(run[r].locals.recorded) = 1
        /\ \A j \in 1..2 :
              <<CurrentUser(r), hash_notification(CurrentUser(r),
                                    run[r].locals.notifications[j])>> \in sent
        /\ "last_error" \in DOMAIN system_state
        /\ system_state["last_error"].errors[1].error = "storage"

\* the run r holds the error of a failed fetch in its list of errors
FetchFailed(r) ==
    \E i \in DOMAIN run[r].errors : run[r].errors[i].error = "fetch"

\* the step in which the run r ends
RunEnds(r) == run[r].pc # "idle" /\ run'[r].pc = "idle"

\* a failed fetch and its handler touch neither the store nor the sink, no
\* delivery has been attempted for the group, and the handler appends the
\* error of the group to the errors of the run
FetchFailureIsolated ==
    \A r \in Runs :
        /\ (run[r].pc = "fetch" /\ run'[r].pc = "group_exc")
              => /\ UNCHANGED <<snapshots, sent, sink>>
                 /\ run'[r].locals.error = "fetch"
                 /\ run'[r].locals.attempts = <<>>
        /\ (run[r].pc = "group_exc" /\ run[r].locals.error = "fetch")
              => /\ UNCHANGED <<snapshots, sent, sink>>
                 /\ run[r].locals.attempts = <<>>
                 /\ run'[r].errors =
                       Append(run[r].errors,
                              [group_id |-> CurrentGroup(r), error |-> "fetch"])

\* last_error as the run r leaves it names the failed fetch of a group
InLastError(r) ==
    /\ "last_error" \in DOMAIN system_state'
    /\ \E i \in DOMAIN run[r].errors, j \in DOMAIN system_state'["last_error"].errors :
          /\ run[r].errors[i].error = "fetch"
          /\ system_state'["last_error"].errors[j] = run[r].errors[i]

\* last_error as the run r leaves it lists the first three errors of the run
FirstErrorsInLastError(r) ==
    /\ "last_error" \in DOMAIN system_state'
    /\ \A i \in DOMAIN run[r].errors :
          i <= 3 => /\ i \in DOMAIN system_state'["last_error"].errors
                    /\ system_state'["last_error"].errors[i] = run[r].errors[i]

LastErrorIn(state) ==
    IF "last_error" \in DOMAIN state THEN state["last_error"] ELSE <<>>

\* C35: last_error changes only in the last step of a run that collected the
\* error of a group or that reached its top-level handler, and the handler
\* is entered only by a call that raised; a run in which no group failed and
\* no call raised leaves last_error as it found it
C35_LastErrorKept ==
    [][/\ LastErrorIn(system_state') # LastErrorIn(system_state)
            => \E r \in Runs :
                  /\ \/ run[r].pc = "write_errors" /\ run[r].errors # <<>>
                     \/ run[r].pc = "top_except"
                  /\ run'[r].pc = "idle"
       /\ \A r \in Runs :
             /\ run[r].pc = "write_errors" => run[r].errors # <<>>
             /\ (run[r].pc # "top_except" /\ run'[r].pc = "top_except")
                   => faultsLeft' < faultsLeft]_vars

\* a later run has processed its group without error and is at its last
\* state write, while last_error still holds the fetch error of an earlier run
C35_Witness ==
    \E r \in Runs :
        /\ run[r].pc = "session_write"
        /\ run[r].errors = <<>>
        /\ HasSnapshot(1)
        /\ "last_error" \in DOMAIN system_state
        /\ system_state["last_error"].errors = <<[group_id |-> 1, error |-> "fetch"]>>

\* C38: within one call of notify_schedule_changes no (user, notification)
\* pair is attempted twice: a refused or failed delivery is not tried again
\* before the call returns
C38_OneAttemptPerPair ==
    \A r \in Runs :
        \A i, j \in DOMAIN run[r].locals.attempts :
            (/\ run[r].locals.attempts[i].user_id = run[r].locals.attempts[j].user_id
             /\ run[r].locals.attempts[i].data = run[r].locals.attempts[j].data)
            => i = j

\* the call has returned after a refused delivery of its first notification
\* and an accepted one of its second: two attempts, one for each pair
C38_Witness ==
    \E r \in Runs :
        /\ run[r].pc = "save_snapshot"
        /\ Len(run[r].locals.notifications) = 2
        /\ Len(run[r].locals.attempts) = 2
        /\ ~run[r].locals.attempts[1].ok
        /\ run[r].locals.attempts[2].ok
        /\ run[r].locals.result = 1

(***************************************************************************)
(* Database.save_schedule_snapshot on its own: the rows of                 *)
(* schedule_snapshots under a sequence of saves.                           *)
(***************************************************************************)
\* the values of the snapshot_type column
SnapshotKinds == {"regular", "session"}

\* the number of saves in one behaviour
MaxSaves == 3

\* the contents given to the saves
SavedSchedules == {<<LectureAt10>>, <<LectureAt12>>}

\* the two rows are for the same (group_id, snapshot_type)
SamePair(x, y) == x.group_id = y.group_id /\ x.snapshot_type = y.snapshot_type

\* a plain INSERT into a table without the UNIQUE(group_id, snapshot_type)
\* constraint: every save adds a row
upsert_snapshot_row_Insert(rows, row) == rows \cup {row}

\* INSERT ... ON CONFLICT(group_id, snapshot_type) DO UPDATE SET
\* schedule_hash, schedule_data, created_at: the row of the pair is replaced
upsert_snapshot_row(rows, row) ==
    {x \in rows : ~SamePair(x, row)} \cup {row}

\* the row that save_schedule_snapshot(group_id, schedule_data, snapshot_type)
\* writes at time t
snapshot_row(group_id, schedule_data, snapshot_type, t) ==
    [group_id |-> group_id,
     snapshot_type |-> snapshot_type,
     schedule_hash |-> hash_schedule(schedule_data),
     schedule_data |-> schedule_data,
     created_at |-> t]

InitSnapshots ==
    /\ Tables(NobodyYet, 0, 0, 0, MaxClock)
    /\ request = NoRequest
    /\ call = [pc |-> "store", rows |-> {}, saves |-> <<>>]

\* one save_schedule_snapshot call; the regular kind is the snapshot table of
\* the poll as well
SaveScheduleSnapshot ==
    /\ call.pc = "store"
    /\ Len(call.saves) < MaxSaves
    /\ \E group_id \in Groups, schedule_data \in SavedSchedules,
          snapshot_type \in SnapshotKinds, t \in Now :
          LET row == snapshot_row(group_id, schedule_data, snapshot_type, t)
          IN /\ clock' = t
             /\ call' = [call EXCEPT !.rows = upsert_snapshot_row(@, row),
                                     !.saves = Append(@, row)]
             /\ snapshots' = IF snapshot_type = "regular"
                             THEN save_schedule_snapshot(group_id, schedule_data, t)
                             ELSE snapshots
    /\ UNCHANGED <<users, sent, system_state, run, runsLeft, opsLeft, sink,
                   faultsLeft, horizon, request>>

NextSnapshots == SaveScheduleSnapshot

SpecSnapshots == InitSnapshots /\ [][NextSnapshots]_vars

\* the saves made so far for the pair of the row x
SavesFor(x) == {i \in DOMAIN call.saves : SamePair(call.saves[i], x)}

\* the last of a non-empty set of positions
LastOf(positions) == CHOOSE i \in positions : \A j \in positions : j <= i

\* hash and data of a row
Content(x) == <<x.schedule_hash, x.schedule_data>>

\* C36: after any sequence of saves the table holds one row for each pair
\* that was saved and none for another pair; the row is the one written by
\* the last save of its pair, so saves of other pairs did not touch it; and
\* a second save of the content a pair holds leaves its hash and data as the
\* first save wrote them
C36_OneRowPerPair ==
    call.pc = "store" =>
        /\ \A x, y \in call.rows : SamePair(x, y) => x = y
        /\ \A x \in call.rows :
              /\ SavesFor(x) # {}
              /\ x = call.saves[LastOf(SavesFor(x))]
              /\ x.schedule_hash = hash_schedule(x.schedule_data)
        /\ \A i \in DOMAIN call.saves : \E x \in call.rows : SamePair(x, call.saves[i])
        /\ \A x \in call.rows, t \in Now :
              LET again == snapshot_row(x.group_id, x.schedule_data, x.snapshot_type, t)
                  after == upsert_snapshot_row(call.rows, again)
              IN /\ \A y \in after : SamePair(y, x) => Content(y) = Content(x)
                 /\ \A y \in after : ~SamePair(y, x) => y \in call.rows
                 /\ \A y \in call.rows : ~SamePair(y, x) => y \in after
        /\ \A group_id \in Groups :
              /\ HasSnapshot(group_id)
                    <=> \E x \in call.rows :
                           x.group_id = group_id /\ x.snapshot_type = "regular"
              /\ \A x \in call.rows :
                    (x.group_id = group_id /\ x.snapshot_type = "regular")
                    => /\ SnapshotOf(group_id).schedule_hash = x.schedule_hash
                       /\ SnapshotOf(group_id).schedule_data = x.schedule_data
                       /\ SnapshotOf(group_id).created_at = x.created_at

\* group 1 was saved with one regular content, then with a session content,
\* then with another regular content at a later time: two rows, the regular
\* one holding the third save and the session one the second
C36_Witness ==
    /\ call.pc = "store"
    /\ Len(call.saves) = 3
    /\ SamePair(call.saves[1], call.saves[3])
    /\ ~SamePair(call.saves[1], call.saves[2])
    /\ call.saves[1].group_id = call.saves[2].group_id
    /\ call.saves[1].schedule_data # call.saves[3].schedule_data
    /\ call.saves[1].created_at < call.saves[3].created_at
    /\ call.rows = {call.saves[2], call.saves[3]}

(***************************************************************************)
(* SpbuApiClient.get_group_session_schedule: the filter of the session     *)
(* window, applied to the events of one fetch.                             *)
(***************************************************************************)
\* session_keywords of get_group_session_schedule, letter by letter as in
\* SESSION_EVENT_TYPES
session_keywords ==
    << <<"z","a","c","h","e","t">>, <<"z","a","c","h","io","t">>,
       <<"e","k","z","a","m","e","n">>,
       <<"p","o","k","a","z"," ","r","a","b","o","t">>,
       <<"c","r","e","d","i","t">>, <<"e","x","a","m">> >>

\* the filter that looks for the keywords in the kind only
is_session_KindOnly(event) ==
    \E i \in DOMAIN session_keywords :
        Contains(Lower(event.Kind), session_keywords[i])

\* the body of the loop over the fetched events: is_session for one event
is_session(event) ==
    LET event_type == Lower(event.Kind)
        subject == Lower(event.Subject)
    IN \E i \in DOMAIN session_keywords :
          \/ Contains(event_type, session_keywords[i])
          \/ Contains(subject, session_keywords[i])

\* session_events: the events kept by the loop, appended in the order of
\* the fetched list
RECURSIVE get_group_session_schedule(_)
get_group_session_schedule(events) ==
    IF events = <<>> THEN <<>>
    ELSE (IF is_session(Head(events)) THEN <<Head(events)>> ELSE <<>>)
         \o get_group_session_schedule(Tail(events))

\* the longest fetched list given to the filter
MaxFetched == 3

ExamOfMath == Lesson(<<"M","a","t","h">>, <<"E","x","a","m">>, At10, At12)
CreditTest == Lesson(<<"C","r","e","d","i","t"," ","M","a","t","h">>, <<>>, At10, At12)
LectureOnExams ==
    Lesson(<<"e","k","z","a","m","e","n","y">>, <<"l","e","c","t","u","r","e">>, At12, At14)
ShowOfWorks ==
    Lesson(<<"M","a","t","h">>, <<"P","o","k","a","z"," ","r","a","b","o","t">>, At12, At14)

\* what one fetch of the session window can hold
FetchedPool == {LectureAt10, SeminarAt10, ExamOfMath, CreditTest, LectureOnExams, ShowOfWorks}

FetchedLists == UNION {[1..n -> FetchedPool] : n \in 0..MaxFetched}

InitFilter ==
    /\ Silent
    /\ request = NoRequest
    /\ call \in {[pc |-> "fetched", events |-> events] : events \in FetchedLists}

\* session_events = the filtered events of get_group_events
GetGroupSessionSchedule ==
    /\ call.pc = "fetched"
    /\ call' = [pc |-> "filtered", events |-> call.events,
                result |-> get_group_session_schedule(call.events)]
    /\ UNCHANGED <<users, snapshots, sent, system_state, clock, run, runsLeft,
                   opsLeft, sink, faultsLeft, horizon, request>>

NextFilter == GetGroupSessionSchedule

SpecFilter == InitFilter /\ [][NextFilter]_vars

\* C37: get_group_session_schedule returns the fetched events for which
\* ScheduleService.is_session_event is true, each as often as it was fetched
\* and in the order of the fetched list
C37_FilterIsSessionEvent ==
    call.pc = "filtered" =>
        call.result = SelectSeq(call.events, is_session_event)

\* a fetched list of three in which a lesson stands between an event that is
\* a session event by its kind and one that is by its subject
C37_Witness ==
    /\ call.pc = "filtered"
    /\ Len(call.events) = 3
    /\ is_session_event_KindOnly(call.events[1])
    /\ ~is_session_event(call.events[2])
    /\ ~is_session_event_KindOnly(call.events[3])
    /\ is_session_event(call.events[3])
    /\ call.result = <<call.events[1], call.events[3]>>

(***************************************************************************)
(* Database.cleanup_old_notifications beside the poll.                     *)
(***************************************************************************)
\* the default of the days parameter of cleanup_old_notifications
DefaultDays == 30

\* the answers of the schedule source in the cycles around a pruning
PruneAnswers == {<<LectureAt10, SeminarAt10>>, <<LectureAt12>>}

\* DELETE FROM sent_notifications WHERE created_at < datetime('now', '-N days'),
\* with the clock in hours: the rows that stay, when every row was created
\* at the hour created_at
cleanup_old_notifications(days, now, created_at) ==
    {x \in sent : ~(created_at < now - days * 24)}

\* the clock stands at 0 until the pruning, so every sent record was
\* created at hour 0
InitPrune ==
    /\ Tables(OneSubscriber, MaxRuns + 1, 0, MaxFaults, 0)
    /\ request = NoRequest
    /\ call = [pc |-> "prune", left |-> 1, rowcount |-> 0]

\* one call of cleanup_old_notifications(), now or more than thirty days
\* after the records were created; it returns the number of deleted rows
CleanupOldNotifications ==
    /\ call.pc = "prune"
    /\ call.left > 0
    /\ \E now \in {clock, clock + DefaultDays * 24 + 1} :
          /\ sent' = cleanup_old_notifications(DefaultDays, now, clock)
          /\ clock' = now
          /\ horizon' = now
          /\ call' = [call EXCEPT !.left = @ - 1,
                                  !.rowcount = Cardinality(sent) - Cardinality(sent')]
    /\ UNCHANGED <<users, snapshots, system_state, run, runsLeft, opsLeft, sink,
                   faultsLeft, request>>

NextPrune ==
    \/ Start("timer", FALSE)
    \/ Step("timer", PruneAnswers)
    \/ CleanupOldNotifications

SpecPrune == InitPrune /\ [][NextPrune]_vars

\* C39: every step of a poll cycle keeps all sent records, so the set of
\* recorded (user, fingerprint) pairs only grows while polling; a step that
\* removes a record is a call of cleanup_old_notifications, and it removes
\* only records older than its number of days
C39_SentAppendOnly ==
    [][/\ (run' # run \/ runsLeft' # runsLeft) => sent \subseteq sent'
       /\ ~(sent \subseteq sent')
             => /\ call.left > 0 /\ call'.left = call.left - 1
                /\ clock' > DefaultDays * 24
                /\ UNCHANGED <<run, runsLeft>>]_vars

\* the two records of the first cycles were pruned, and a later cycle has
\* recorded its first delivery and is about to record its second
C39_Witness ==
    /\ call.pc = "prune"
    /\ call.rowcount = 2
    /\ Cardinality(sent) = 1
    /\ run["timer"].pc = "mark"
    /\ Len(run["timer"].locals.recorded) = 1

====
